---- MODULE Spec2Model ----
(***************************************************************************)
(* Resilience loops of gestaode/GIENE.                                     *)
(*                                                                         *)
(* The repository holds several copies of one loop: run the system, count  *)
(* consecutive successes, reset the count on a failure, try a correction,  *)
(* stop on a target or on too many failures.  Each copy is one program of  *)
(* this model; `prog` says which one a behaviour runs:                     *)
(*   "SystemRunner.run"           src/main.py 44-58                        *)
(*   "realizar_varredura"         src/main.py 60-85                        *)
(*   "executar_com_resiliencia"   src/backups/inicial/server/standalone/   *)
(*                                system_resilience.py 25-45               *)
(*   "testar_modulo"              src/scripts/system_tester.py 52-94       *)
(*   "varredura_geral"            src/scripts/system_tester.py 250-288     *)
(*   "varredura_inicial"          src/backups/inicial/main.py 141-201      *)
(*                                (realizar_varredura of the main script)  *)
(*   "executar_teste_completo"    src/scripts/system_tester.py 290-343     *)
(*                                (the seven module sweeps, the general    *)
(*                                sweep and the analysis, as main() runs   *)
(*                                them)                                    *)
(*   "testar_modulo_de_novo"      testar_modulo on a tester that has run   *)
(*                                sweeps before                            *)
(*   "_gerar_acao_correcao", "corrigir_erro", "corrigir_erro_inicial"      *)
(*                                one call of a Corrector                  *)
(*                                (system_tester.py 145-218, backups/      *)
(*                                inicial/main.py 74-139)                  *)
(*   "run_system_tests.main"      src/scripts/run_system_tests.py 353-387  *)
(*   "execucao_unica"             src/backups/inicial/main.py 210-224      *)
(*   "backup_e_restauracao"       src/backups/inicial/scripts/             *)
(*                                atualizar_sistema.py 13-112              *)
(*                                                                         *)
(* random.random() and random.choice() are nondeterministic choices; the   *)
(* sleeps, the log lines and the timestamps are left out.                  *)
(***************************************************************************)
EXTENDS Integers, Sequences, FiniteSets, TLC

(***************************************************************************)
(* Bounds.  The thresholds and targets of the source are 100 and 1000; the *)
(* model keeps their role and scales their value, and every formula below  *)
(* is stated in terms of the names.                                        *)
(***************************************************************************)
\* self.MAX_CONSECUTIVE_FAILURES = 100 (src/main.py:10), scaled
MAX_CONSECUTIVE_FAILURES == 3
\* self.REQUIRED_SUCCESSFUL_RUNS = 1000 (src/main.py:11), scaled
REQUIRED_SUCCESSFUL_RUNS == 3
\* the literal 100 of `if execucoes_falha > 100` (src/main.py:76), scaled
LIMITE_FALHAS == 3
\* max_tentativas = 100 (system_resilience.py:26), scaled
max_tentativas == 3
\* the literal 1000 of executar_com_resiliencia (system_resilience.py:30,42), scaled
EXECUCOES_ALVO == 3
\* largest value of the parameters repeticoes / tentativas that Init draws
MaxRepeticoes == 3
\* iterations explored of a loop without statistics
MaxIteracoes == 7
\* iterations explored of a SystemTester sweep
MaxIteracoesTester == 5
\* iterations explored of the main-script sweep
MaxIteracoesInicial == 3
\* tentativas_modulo = 20 (system_tester.py:301), scaled
tentativas_modulo == 1
\* tentativas_geral = 50 (system_tester.py:302), scaled
tentativas_geral == 1
\* failed samples explored of a full test run
MaxFalhasCompleto == 1
\* lines a pipe holds before a write to it blocks (the capacity of an OS pipe, scaled)
CapacidadeDoPipe == 2
\* lines a child writes to one stream
MaxSaida == 3

VARIABLES
    prog,                    \* the entry point this behaviour runs
    status,                  \* "RUNNING", "SUCCEEDED", "ABORTED"; "FATAL", "EXCECAO", "KILLED"
    repeticoes,              \* the configured number of consecutive successes
    nome_modulo,             \* testar_modulo's module argument (None otherwise)
    successful_runs,         \* SystemRunner
    consecutive_failures,    \* SystemRunner
    execucoes_sucesso,       \* the streak counter of the sweeps
    execucoes_falha,         \* realizar_varredura (src/main.py)
    tentativas,              \* realizar_varredura (src/main.py)
    tentativas_consecutivas, \* executar_com_resiliencia
    statistics,              \* SystemTester.statistics
    estatisticas,            \* the main-script sweep's record
    arquivo,                 \* the statistics file: <<>> if none, else <<content>>
    escrita,                 \* how much of the text of arquivo[1] is on disk
    fase,                    \* executar_teste_completo: the step it is at
    coord,                   \* run_system_tests.py: its arguments and its progress
    chamada,                 \* a single call of a Corrector: its arguments and results
    unica,                   \* the main script run once: its position and its locals
    arvore,                  \* atualizar_sistema.py: the working tree and its backups
    hist                     \* history of the run (not program state)

vars == <<prog, status, repeticoes, nome_modulo, successful_runs,
          consecutive_failures, execucoes_sucesso, execucoes_falha, tentativas,
          tentativas_consecutivas, statistics, estatisticas, arquivo, escrita,
          fase, coord, chamada, unica, arvore, hist>>

None == "None"

----------------------------------------------------------------------------
(* Static tables                                                           *)

MODULOS ==
    << "content_generation", "video_generation", "text_to_speech",
       "api_integration", "social_media_posting", "fallback_mechanisms",
       "resilience_service" >>

ModuloNomes == { MODULOS[i] : i \in 1..Len(MODULOS) }

\* tipos_erro of SystemTester.executar_sistema; the None row is the general sweep
tipos_erro(modulo) ==
    CASE modulo = "content_generation" ->
           <<"API timeout", "Invalid response format", "Content policy violation">>
      [] modulo = "video_generation" ->
           <<"FFmpeg error", "Video processing timeout", "Insufficient resources">>
      [] modulo = "text_to_speech" ->
           <<"Unsupported language", "Audio generation failed", "API rate limit">>
      [] modulo = "api_integration" ->
           <<"API connection refused", "Invalid credentials", "Rate limit exceeded">>
      [] modulo = "social_media_posting" ->
           <<"Authentication failed", "Post rejected", "Media format invalid">>
      [] modulo = "fallback_mechanisms" ->
           <<"No fallback available", "Fallback also failed", "Configuration error">>
      [] modulo = "resilience_service" ->
           <<"Service unavailable", "Health check failed">>
      [] modulo = None ->
           <<"System error", "Unknown error", "Resource allocation failed",
             "Unexpected behavior">>
      [] OTHER -> <<"Unknown error">>

\* (faulty variant, for the sensitivity of the properties: the default list for every module)
erros_por_modulo_padrao(modulo) == <<"Unknown error">>
\* erros_por_modulo of the main script's rodar_sistema (no None row)
erros_por_modulo(modulo) ==
    IF modulo \in ModuloNomes THEN tipos_erro(modulo) ELSE <<"Unknown error">>

Elems(s) == { s[i] : i \in 1..Len(s) }

\* f"{erro} em {modulo}": the message as the sequence of its three parts
Mensagem(erro, modulo) ==
    <<erro, " em ", IF modulo = None THEN "Sistema Geral" ELSE modulo>>

----------------------------------------------------------------------------
(* History of a run: what the iterations so far did.  `ultimo` is the     *)
(* outcome of the last iteration: "success" (the sample succeeded),       *)
(* "fixed" (it failed and the correction succeeded) or "unfixed" (it      *)
(* failed and no correction succeeded).                                   *)

HistInicial ==
    [ iteracoes    |-> 0,      \* completed iterations
      amostras_ok  |-> 0,      \* sampled successes since the last sampled failure
      nao_corrigidas |-> 0,    \* uncorrected failures in a row, no success or fix between
      sem_falha    |-> 0,      \* iterations in a row that were not an uncorrected failure
      houve_sucesso |-> FALSE, \* some sample succeeded
      houve_correcao |-> FALSE,\* some correction succeeded
      houve_falha_correcao |-> FALSE, \* some failure was left uncorrected
      salvamentos  |-> 0,      \* writes of the statistics file
      falhas       |-> 0,      \* sampled failures
      corrigidas   |-> 0,      \* failures whose correction succeeded
      erro_gravacao |-> FALSE, \* a write of the statistics file raised OSError
      ultimo       |-> "none" ]

Registrar(h, resultado) ==
    [ h EXCEPT
        !.iteracoes = @ + 1,
        !.amostras_ok = IF resultado = "success" THEN @ + 1 ELSE 0,
        !.nao_corrigidas = IF resultado = "unfixed" THEN @ + 1 ELSE 0,
        !.sem_falha = IF resultado = "unfixed" THEN 0 ELSE @ + 1,
        !.houve_sucesso = @ \/ resultado = "success",
        !.houve_correcao = @ \/ resultado = "fixed",
        !.houve_falha_correcao = @ \/ resultado = "unfixed",
        !.falhas = IF resultado = "success" THEN @ ELSE @ + 1,
        !.corrigidas = IF resultado = "fixed" THEN @ + 1 ELSE @,
        !.ultimo = resultado ]

Resultados == {"success", "fixed", "unfixed"}

----------------------------------------------------------------------------
(* SystemTester.statistics and the main-script record                      *)

EntradaVazia == [attempts |-> 0, successes |-> 0, failures |-> 0, errors |-> <<>>]

\* SystemTester.__init__ (start_time left out)
EstatisticasIniciais ==
    [ modules_tested |-> <<>>,
      general_tests |-> EntradaVazia,
      optimizations_applied |-> <<>> ]

\* the dict `estatisticas` of the main script's realizar_varredura
EstatisticasVarredura(n) ==
    [ total |-> n, sucesso |-> 0, falhas |-> 0, tipos_erro |-> <<>>,
      correcoes |-> 0, falhas_correcao |-> 0 ]

----------------------------------------------------------------------------
Programas ==
    { "SystemRunner.run", "realizar_varredura", "executar_com_resiliencia",
      "testar_modulo", "varredura_geral", "varredura_inicial",
      "executar_teste_completo",
      "_gerar_acao_correcao", "corrigir_erro", "corrigir_erro_inicial",
      "testar_modulo_de_novo", "run_system_tests.main", "execucao_unica",
      "backup_e_restauracao" }

\* testar_modulo, called on a new SystemTester or ("testar_modulo_de_novo") on
\* one that has run sweeps before
SweepsDeModulo == {"testar_modulo", "testar_modulo_de_novo"}

\* the entry points that are one call of a Corrector
Chamadas == {"_gerar_acao_correcao", "corrigir_erro", "corrigir_erro_inicial"}

\* a module name that is not in MODULOS
ModuloForaDaLista == "modulo_inexistente"

\* the target each entry point is started with
Alvos(p) ==
    CASE p = "SystemRunner.run" -> {REQUIRED_SUCCESSFUL_RUNS}
      [] p = "executar_com_resiliencia" -> {EXECUCOES_ALVO}
      [] p = "executar_teste_completo" -> {tentativas_modulo}
      [] p \in Chamadas -> {1}
      [] p = "testar_modulo_de_novo" -> {1}
      [] p = "run_system_tests.main" -> {1}
      [] p = "execucao_unica" -> {1}
      [] p = "backup_e_restauracao" -> {1}
      [] OTHER -> 0..MaxRepeticoes

\* --mode of run_system_tests.py
Modos == {"full", "demo", "simulation", "integration"}

\* the coordinator's state when a program runs on its own
CoordNenhum ==
    [ mode |-> "none", module_tests |-> 0, system_tests |-> 0, pc |-> "none",
      sim_success |-> TRUE, int_success |-> TRUE, iniciados |-> <<>>,
      resultados |-> <<>>, analises |-> 0, retorno |-> 0 - 1,
      \* the child of the phase in progress: its state, the lines it has yet to
      \* write to each stream, the lines waiting in each pipe, its exit code
      filho |-> "none", a_escrever |-> [stdout |-> 0, stderr |-> 0],
      pipe |-> [stdout |-> 0, stderr |-> 0], return_code |-> 0 ]

\* the coordinator after parse_arguments: --mode, --module-tests, --system-tests
CoordInicial(mode, module_tests, system_tests) ==
    [ CoordNenhum EXCEPT !.mode = mode, !.module_tests = module_tests,
                         !.system_tests = system_tests, !.pc = "simulation" ]

\* the environment run_simulation_tests gives the child system_tester.py
Ambiente(c) ==
    [ TEST_MODULE_ITERATIONS |-> c.module_tests,
      TEST_SYSTEM_ITERATIONS |-> c.system_tests ]

\* the statistics of a SystemTester after testar_modulo("content_generation", 1)
\* with one corrected failure, testar_modulo("video_generation", 1) and
\* varredura_geral(1) without failures
EstatisticasAnteriores ==
    [ modules_tested |->
          ("content_generation" :>
              [ attempts |-> 2, successes |-> 1, failures |-> 1,
                errors |-> (Mensagem("API timeout", "content_generation") :> 1) ])
       @@ ("video_generation" :>
              [ attempts |-> 1, successes |-> 1, failures |-> 0, errors |-> <<>> ]),
      general_tests |->
          [ attempts |-> 1, successes |-> 1, failures |-> 0, errors |-> <<>> ],
      optimizations_applied |->
          << [ module |-> "content_generation",
               error |-> Mensagem("API timeout", "content_generation"),
               action |-> <<"Corre", "U+00E7", "U+00E3", "o aplicada em ",
                            "content_generation", ": ",
                            "Aumentado timeout e implementado retry exponencial">> ] >> ]

\* the module arguments a Corrector is called with
ModulosDeEntrada == ModuloNomes \cup {None, ModuloForaDaLista}

\* the error arguments: the message of every module for every kind of every
\* list, a message without " em ", a message with two " em ", and no message
ErrosDeEntrada ==
    { Mensagem(e, m) : e \in UNION { Elems(tipos_erro(x)) : x \in ModulosDeEntrada },
                       m \in {"content_generation", None, ModuloForaDaLista} }
    \cup { <<"Unknown error">>, <<"API timeout", " em ", "fila", " em ", "api_integration">> }

ChamadaNenhuma ==
    [ modulo |-> None, erro |-> <<>>, feito |-> FALSE, descricao |-> "",
      chance |-> 0, veredito |-> FALSE ]

\* the arguments of the call an entry point p makes
ChamadasDe(p) ==
    CASE p \in {"_gerar_acao_correcao", "corrigir_erro"} ->
           { [ChamadaNenhuma EXCEPT !.modulo = m, !.erro = e] :
               m \in ModulosDeEntrada, e \in ErrosDeEntrada }
      [] p = "corrigir_erro_inicial" ->
           { [ChamadaNenhuma EXCEPT !.erro = e] : e \in ErrosDeEntrada \cup {<<>>} }
      [] OTHER -> {ChamadaNenhuma}

\* `diretorios` and `arquivos` of criar_backup and restaurar_backup
diretorios == <<"server", "client", "shared", "scripts", "api-interfaces">>
arquivos ==
    <<"package.json", "tsconfig.json", "vite.config.ts", "main.py", "drizzle.config.ts">>

\* A path is <<>> when it does not exist and <<content>> when it does.  The
\* content of a file is a version; the content of a directory is the set of
\* its files, each <<name, version>>, no name twice
Versoes == {1, 2}
NomesNoDiretorio == {"x", "y"}
ConteudosDeDiretorio ==
    { c \in SUBSET (NomesNoDiretorio \X Versoes) :
        \A a, b \in c : a[1] = b[1] => a = b }

\* a tree where no listed path exists
ArvoreVazia ==
    [ dirs |-> [d \in Elems(diretorios) |-> <<>>],
      arqs |-> [f \in Elems(arquivos) |-> <<>>] ]

\* the working trees explored: any state of the directory server and of the
\* file main.py, the other listed paths absent
Arvores ==
    { [ArvoreVazia EXCEPT !.dirs["server"] = d, !.arqs["main.py"] = f] :
        d \in {<<>>} \cup { <<c>> : c \in ConteudosDeDiretorio },
        f \in {<<>>} \cup { <<v>> : v \in Versoes } }

\* the names given to criar_backup and restaurar_backup
NomesDeBackup == {"b", "inexistente"}

\* the directory backups before the script runs: empty, or holding under "b"
\* a backup made of an earlier tree
BackupsIniciais ==
    { [n \in NomesDeBackup |-> <<>>],
      [n \in NomesDeBackup |->
         IF n = "b"
           THEN << [ArvoreVazia EXCEPT !.dirs["server"] = <<{<<"y", 1>>}>>,
                                       !.arqs["main.py"] = <<1>>] >>
           ELSE <<>>] }

\* atualizar_sistema.py when it does not run
ArvoreNenhuma == [ pc |-> "none" ]

\* atualizar_sistema.py before criar_backup: the working tree, the backups,
\* and for the properties the tree at backup time and before the restore
ArvoreInicial(trabalho, backups) ==
    [ pc |-> "criar", trabalho |-> trabalho, backups |-> backups,
      no_backup |-> trabalho, antes |-> trabalho, nome |-> "b",
      retorno |-> "none" ]

\* the main script when it does not run once
UnicaNenhuma ==
    [ pc |-> "none", sucesso |-> FALSE, erro |-> <<>>, corrigido |-> FALSE,
      execucoes |-> <<>>, vereditos |-> <<>>, final |-> "none" ]

\* the main script started without --varredura, before its first rodar_sistema
UnicaInicial == [UnicaNenhuma EXCEPT !.pc = "rodar"]

Init ==
    /\ prog \in Programas
    /\ repeticoes \in Alvos(prog)
    /\ nome_modulo \in
          CASE prog = "testar_modulo" -> ModuloNomes \cup {ModuloForaDaLista}
            [] prog = "testar_modulo_de_novo" -> {"content_generation", "text_to_speech"}
            [] prog = "executar_teste_completo" -> {MODULOS[1]}
            [] OTHER -> {None}
    /\ status = "RUNNING"
    /\ successful_runs = 0
    /\ consecutive_failures = 0
    /\ execucoes_sucesso = 0
    /\ execucoes_falha = 0
    /\ tentativas = 0
    /\ tentativas_consecutivas = 0
    /\ statistics = IF prog = "testar_modulo_de_novo" THEN EstatisticasAnteriores
                    ELSE EstatisticasIniciais
    /\ estatisticas = EstatisticasVarredura(repeticoes)
    \* the earlier sweeps ended with save_statistics
    /\ arquivo = IF prog = "testar_modulo_de_novo" THEN <<EstatisticasAnteriores>> ELSE <<>>
    /\ escrita = IF prog = "testar_modulo_de_novo" THEN "completa" ELSE "nenhuma"
    /\ fase = IF prog = "executar_teste_completo" THEN 1 ELSE 0
    \* system_tester.py runs as the child of the coordinator's simulation phase
    /\ coord \in
          IF prog = "executar_teste_completo"
            THEN { [CoordInicial("simulation", tentativas_modulo + k, tentativas_geral + k)
                      EXCEPT !.iniciados = <<"simulation">>] : k \in {0, 1} }
            ELSE IF prog = "run_system_tests.main"
              THEN { CoordInicial(m, tentativas_modulo, tentativas_geral) : m \in Modos }
            ELSE {CoordNenhum}
    /\ chamada \in ChamadasDe(prog)
    /\ unica = IF prog = "execucao_unica" THEN UnicaInicial ELSE UnicaNenhuma
    /\ arvore \in
          IF prog = "backup_e_restauracao"
            THEN { ArvoreInicial(t, b) : t \in Arvores, b \in BackupsIniciais }
            ELSE {ArvoreNenhuma}
    /\ hist = HistInicial

----------------------------------------------------------------------------
(* SystemRunner (src/main.py)                                              *)

\* simulate_error: (True, None) or (False, message)
simulate_error ==
    { <<TRUE, None>>,
      <<FALSE, "Macro error: Major system failure">>,
      <<FALSE, "Micro error: Minor system glitch">> }

\* (faulty variant, for the sensitivity of the properties: a fixed error reported as a failed iteration)
run_iteration_falso(success, fixed) == success
\* run_iteration's result from the sample and from attempt_fix's verdict
run_iteration(success, fixed) ==
    IF ~success THEN (IF fixed THEN TRUE ELSE FALSE) ELSE TRUE

\* `while self.successful_runs < self.REQUIRED_SUCCESSFUL_RUNS`
RunnerContinua(runs) == runs < REQUIRED_SUCCESSFUL_RUNS

\* (faulty variant, for the sensitivity of the properties: the break only once the threshold is exceeded)
RunnerAbortaEstrito(falhas) == falhas > MAX_CONSECUTIVE_FAILURES
\* `if self.consecutive_failures >= self.MAX_CONSECUTIVE_FAILURES: break`
RunnerAborta(falhas) == falhas >= MAX_CONSECUTIVE_FAILURES

\* (faulty variant, for the sensitivity of the properties: neither counter reset)
RunnerContadoresSemZerar(ok, runs, falhas) ==
    IF ok THEN <<runs + 1, falhas>> ELSE <<runs, falhas + 1>>
\* the counters after the branch on run_iteration()
RunnerContadores(ok, runs, falhas) ==
    IF ok THEN <<runs + 1, 0>> ELSE <<0, falhas + 1>>

Resultado(success, fixed) ==
    IF success THEN "success" ELSE IF fixed THEN "fixed" ELSE "unfixed"

RunnerFrame ==
    UNCHANGED <<prog, repeticoes, nome_modulo, execucoes_sucesso, execucoes_falha,
                tentativas, tentativas_consecutivas, statistics, estatisticas,
                arquivo, escrita, fase, coord, chamada, unica, arvore>>

\* the loop condition fails: the loop ends with the required runs
RunnerSair ==
    /\ prog = "SystemRunner.run"
    /\ status = "RUNNING"
    /\ ~RunnerContinua(successful_runs)
    /\ status' = "SUCCEEDED"
    /\ UNCHANGED <<successful_runs, consecutive_failures, hist>>
    /\ RunnerFrame

\* the break at the top of the body
RunnerAbortar ==
    /\ prog = "SystemRunner.run"
    /\ status = "RUNNING"
    /\ RunnerContinua(successful_runs)
    /\ RunnerAborta(consecutive_failures)
    /\ status' = "ABORTED"
    /\ UNCHANGED <<successful_runs, consecutive_failures, hist>>
    /\ RunnerFrame

\* one pass through the body: run_iteration and the counters
RunnerIterar ==
    /\ prog = "SystemRunner.run"
    /\ status = "RUNNING"
    /\ RunnerContinua(successful_runs)
    /\ ~RunnerAborta(consecutive_failures)
    /\ hist.iteracoes < MaxIteracoes
    /\ \E amostra \in simulate_error, fixed \in BOOLEAN :
         /\ amostra[1] => ~fixed        \* attempt_fix runs only after an error
         /\ LET ok == run_iteration(amostra[1], fixed)
                c  == RunnerContadores(ok, successful_runs, consecutive_failures)
            IN /\ successful_runs' = c[1]
               /\ consecutive_failures' = c[2]
               /\ hist' = Registrar(hist, Resultado(amostra[1], fixed))
    /\ UNCHANGED status
    /\ RunnerFrame

----------------------------------------------------------------------------
(* realizar_varredura (src/main.py).  rodar_sistema is not defined in that *)
(* file; it is taken as the repository's run-once collaborator with a      *)
(* boolean result (system_resilience.py 5-18), which reports a failed run  *)
(* as False whatever its correction did.                                   *)

rodar_sistema == BOOLEAN

\* `while execucoes_sucesso < repeticoes`
VarreduraContinua(sucesso, alvo) == sucesso < alvo

\* (faulty variant, for the sensitivity of the properties: execucoes_falha reset by a success)
VarreduraContadoresZerando(ok, sucesso, falha) ==
    IF ok THEN <<sucesso + 1, 0>> ELSE <<0, falha + 1>>
\* the branch on rodar_sistema(): <<execucoes_sucesso, execucoes_falha>>
VarreduraContadores(ok, sucesso, falha) ==
    IF ok THEN <<sucesso + 1, falha>> ELSE <<0, falha + 1>>

\* (faulty variant, for the sensitivity of the properties: the break as soon as the limit is reached)
VarreduraInterrompeCedo(falha) == falha >= LIMITE_FALHAS
\* `if execucoes_falha > 100: break`
VarreduraInterrompe(falha) == falha > LIMITE_FALHAS

\* the verdict printed after the loop
VarreduraVeredito(sucesso, alvo) ==
    IF sucesso = alvo THEN "SUCCEEDED" ELSE "ABORTED"

VarreduraFrame ==
    UNCHANGED <<prog, repeticoes, nome_modulo, successful_runs,
                consecutive_failures, tentativas_consecutivas, statistics,
                estatisticas, arquivo, escrita, fase, coord, chamada, unica, arvore>>

VarreduraSair ==
    /\ prog = "realizar_varredura"
    /\ status = "RUNNING"
    /\ ~VarreduraContinua(execucoes_sucesso, repeticoes)
    /\ status' = VarreduraVeredito(execucoes_sucesso, repeticoes)
    /\ UNCHANGED <<execucoes_sucesso, execucoes_falha, tentativas, hist>>
    /\ VarreduraFrame

VarreduraIterar ==
    /\ prog = "realizar_varredura"
    /\ status = "RUNNING"
    /\ VarreduraContinua(execucoes_sucesso, repeticoes)
    /\ hist.iteracoes < MaxIteracoes
    /\ \E ok \in rodar_sistema :
         LET c == VarreduraContadores(ok, execucoes_sucesso, execucoes_falha)
         IN /\ tentativas' = tentativas + 1
            /\ execucoes_sucesso' = c[1]
            /\ execucoes_falha' = c[2]
            /\ hist' = Registrar(hist, Resultado(ok, FALSE))
            /\ status' = IF VarreduraInterrompe(c[2])
                           THEN VarreduraVeredito(c[1], repeticoes)
                           ELSE "RUNNING"
    /\ VarreduraFrame

----------------------------------------------------------------------------
(* executar_com_resiliencia (system_resilience.py)                         *)

\* (faulty variant, for the sensitivity of the properties: one more iteration at the limit)
ResilienciaContinuaAlem(sucesso, consecutivas) ==
    sucesso < EXECUCOES_ALVO /\ consecutivas <= max_tentativas
\* `while execucoes_sucesso < 1000 and tentativas_consecutivas < max_tentativas`
ResilienciaContinua(sucesso, consecutivas) ==
    sucesso < EXECUCOES_ALVO /\ consecutivas < max_tentativas

\* (faulty variant, for the sensitivity of the properties: tentativas_consecutivas not reset by a success)
ResilienciaContadoresSemZerar(ok, sucesso, consecutivas) ==
    IF ok THEN <<sucesso + 1, consecutivas>> ELSE <<0, consecutivas + 1>>
\* the branch on rodar_sistema(): <<execucoes_sucesso, tentativas_consecutivas>>
ResilienciaContadores(ok, sucesso, consecutivas) ==
    IF ok THEN <<sucesso + 1, 0>> ELSE <<0, consecutivas + 1>>

\* `if execucoes_sucesso >= 1000` after the loop
ResilienciaVeredito(sucesso) ==
    IF sucesso >= EXECUCOES_ALVO THEN "SUCCEEDED" ELSE "ABORTED"

ResilienciaFrame ==
    UNCHANGED <<prog, repeticoes, nome_modulo, successful_runs,
                consecutive_failures, execucoes_falha, tentativas, statistics,
                estatisticas, arquivo, escrita, fase, coord, chamada, unica, arvore>>

ResilienciaSair ==
    /\ prog = "executar_com_resiliencia"
    /\ status = "RUNNING"
    /\ ~ResilienciaContinua(execucoes_sucesso, tentativas_consecutivas)
    /\ status' = ResilienciaVeredito(execucoes_sucesso)
    /\ UNCHANGED <<execucoes_sucesso, tentativas_consecutivas, hist>>
    /\ ResilienciaFrame

ResilienciaIterar ==
    /\ prog = "executar_com_resiliencia"
    /\ status = "RUNNING"
    /\ ResilienciaContinua(execucoes_sucesso, tentativas_consecutivas)
    /\ hist.iteracoes < MaxIteracoes
    /\ \E ok \in rodar_sistema :
         LET c == ResilienciaContadores(ok, execucoes_sucesso, tentativas_consecutivas)
         IN /\ execucoes_sucesso' = c[1]
            /\ tentativas_consecutivas' = c[2]
            /\ hist' = Registrar(hist, Resultado(ok, FALSE))
    /\ UNCHANGED status
    /\ ResilienciaFrame


----------------------------------------------------------------------------
(* SystemTester (src/scripts/system_tester.py)                             *)

\* (faulty variant, for the sensitivity of the properties: a new key is not added)
ContarErroSemChave(d, k) ==
    IF k \in DOMAIN d THEN [d EXCEPT ![k] = @ + 1] ELSE d
\* a dict counter: d[k] += 1 if k is a key, d[k] = 1 otherwise
ContarErro(d, k) ==
    IF k \in DOMAIN d THEN [d EXCEPT ![k] = @ + 1] ELSE d @@ (k :> 1)

\* falha_probabilidades of executar_sistema, in thousandths
falha_probabilidades(modulo) ==
    CASE modulo = "content_generation" -> 20
      [] modulo = "video_generation" -> 30
      [] modulo = "text_to_speech" -> 10
      [] modulo = "api_integration" -> 40
      [] modulo = "social_media_posting" -> 20
      [] modulo = "fallback_mechanisms" -> 10
      [] modulo = "resilience_service" -> 5
      [] modulo = None -> 10
      [] OTHER -> 10

\* (faulty variant, for the sensitivity of the properties: a module that is not listed draws from the general list)
possiveis_erros_geral(modulo) ==
    IF modulo \in ModuloNomes THEN tipos_erro(modulo) ELSE tipos_erro(None)
\* (faulty variant, for the sensitivity of the properties: the module argument is ignored)
possiveis_erros_sem_modulo(modulo) == tipos_erro(None)
\* possiveis_erros = tipos_erro.get(modulo, ["Unknown error"])
possiveis_erros(modulo) == tipos_erro(modulo)

\* the try block of executar_sistema: it returns, or raises ValueError(message)
\* when random.random() < erro_chance (random() is in [0, 1))
Amostra(modulo) ==
    (IF falha_probabilidades(modulo) < 1000
       THEN { [raised |-> FALSE, msg |-> None] } ELSE {})
    \cup
    (IF falha_probabilidades(modulo) > 0
       THEN { [raised |-> TRUE, msg |-> Mensagem(e, modulo)] :
                e \in Elems(possiveis_erros(modulo)) }
       ELSE {})

\* (faulty variant, for the sensitivity of the properties: no except clause, the exception leaves executar_sistema)
SemExcept(a) == <<~a.raised, a.msg, a.raised>>
\* `return True, None` and `except Exception as e: return False, str(e)`: the
\* pair returned, and whether an exception leaves executar_sistema
Except(a) == <<~a.raised, a.msg, FALSE>>

\* executar_sistema(modulo): (True, None), or (False, message) for an error
\* drawn from the module's list
executar_sistema(modulo) == { Except(a) : a \in Amostra(modulo) }

\* the entry when the call of executar_sistema did not return: only the attempt is counted
SoTentativa(e) == [e EXCEPT !.attempts = @ + 1]

\* the table `acoes` of _gerar_acao_correcao
acoes(modulo) ==
    CASE modulo = "content_generation" ->
           ("API timeout" :> "Aumentado timeout e implementado retry exponencial")
        @@ ("Invalid response format" :> "Adicionada validacao e normalizacao de resposta")
        @@ ("Content policy violation" :> "Ajustado filtro de conteudo com regras mais especificas")
      [] modulo = "video_generation" ->
           ("FFmpeg error" :> "Atualizado parametros FFmpeg para compatibilidade")
        @@ ("Video processing timeout" :> "Otimizado processo de renderizacao com buffer")
        @@ ("Insufficient resources" :> "Implementado gerenciamento dinamico de recursos")
      [] modulo = "text_to_speech" ->
           ("Unsupported language" :> "Adicionado fallback para idioma nao suportado")
        @@ ("Audio generation failed" :> "Implementado mecanismo alternativo de sintese")
        @@ ("API rate limit" :> "Adicionado controle de taxa com filas de prioridade")
      [] modulo = "api_integration" ->
           ("API connection refused" :> "Implementado circuito aberto com reconexao gradual")
        @@ ("Invalid credentials" :> "Atualizado sistema de gerenciamento de tokens")
        @@ ("Rate limit exceeded" :> "Adicionado throttling adaptativo baseado em feedback")
      [] modulo = "social_media_posting" ->
           ("Authentication failed" :> "Renovacao automatica de credenciais implementada")
        @@ ("Post rejected" :> "Adicionado pre-verificador de conformidade")
        @@ ("Media format invalid" :> "Implementado conversor automatico de formato")
      [] modulo = "fallback_mechanisms" ->
           ("No fallback available" :> "Criado novo caminho de fallback para este cenario")
        @@ ("Fallback also failed" :> "Adicionado sistema de fallback em camadas")
        @@ ("Configuration error" :> "Correcao de configuracao e validacao automatica")
      [] modulo = "resilience_service" ->
           ("Service unavailable" :> "Implementado modo degradado autonomo")
        @@ ("Health check failed" :> "Ajustado algoritmo de deteccao de saude do servico")
      [] OTHER -> <<>>

AcaoGenerica == "Aplicada correcao generica baseada em analise de padroes"

\* `erro_tipo in erro` on a message built by Mensagem: erro_tipo is one of its parts
Contem(erro_tipo, erro) == \E i \in 1..Len(erro) : erro[i] = erro_tipo

\* (faulty variant, for the sensitivity of the properties: no generic text when the table has no entry)
_gerar_acao_correcao_sem_generica(modulo, erro) ==
    LET achados == { t \in DOMAIN acoes(modulo) : Contem(t, erro) }
    IN IF achados # {} THEN acoes(modulo)[CHOOSE t \in achados : TRUE]
       ELSE ""
\* _gerar_acao_correcao(modulo, erro): the first key of acoes[modulo] found in erro
_gerar_acao_correcao(modulo, erro) ==
    LET achados == { t \in DOMAIN acoes(modulo) : Contem(t, erro) }
    IN IF achados # {} THEN acoes(modulo)[CHOOSE t \in achados : TRUE]
       ELSE AcaoGenerica

\* the record corrigir_erro appends on a successful correction (timestamp left
\* out).  The action is the text f"Correção aplicada em {modulo}: {acao}" as the
\* sequence of its parts, the two characters outside ASCII named by code point
Otimizacao(modulo, erro) ==
    [ module |-> modulo, error |-> erro,
      action |-> <<"Corre", "U+00E7", "U+00E3", "o aplicada em ", modulo, ": ",
                   _gerar_acao_correcao(modulo, erro)>> ]

\* (faulty variant, for the sensitivity of the properties: a record appended whatever the verdict)
corrigir_erro_registra_tudo(stats, modulo, erro, fixed) ==
    [stats EXCEPT !.optimizations_applied = Append(@, Otimizacao(modulo, erro))]
\* corrigir_erro(modulo, erro) with verdict `fixed`: the statistics afterwards
corrigir_erro(stats, modulo, erro, fixed) ==
    IF fixed
      THEN [stats EXCEPT !.optimizations_applied = Append(@, Otimizacao(modulo, erro))]
      ELSE stats

\* (faulty variant, for the sensitivity of the properties: the entry created anew whether it exists or not)
ComEntradaNova(stats, m) ==
    [stats EXCEPT !.modules_tested = (m :> EntradaVazia) @@ @]
\* `if nome_modulo not in self.statistics["modules_tested"]`: create the entry
ComEntrada(stats, m) ==
    IF m \in DOMAIN stats.modules_tested THEN stats
    ELSE [stats EXCEPT !.modules_tested = @ @@ (m :> EntradaVazia)]

\* (faulty variant, for the sensitivity of the properties: attempts not counted)
EntradaSemTentativa(e, result, error_msg) ==
    IF result
      THEN [e EXCEPT !.successes = @ + 1]
      ELSE [e EXCEPT !.failures = @ + 1,
                     !.errors = ContarErro(@, error_msg)]
\* one entry after an iteration's counting: attempts, then successes or
\* failures and the error tally
EntradaContada(e, result, error_msg) ==
    IF result
      THEN [e EXCEPT !.attempts = @ + 1, !.successes = @ + 1]
      ELSE [e EXCEPT !.attempts = @ + 1, !.failures = @ + 1,
                     !.errors = ContarErro(@, error_msg)]

\* (faulty variant, for the sensitivity of the properties: the loop entered once more at the target)
TesterContinuaAteIgual(sucesso, alvo) == sucesso <= alvo
\* `while execucoes_sucesso < tentativas` of testar_modulo and varredura_geral
TesterContinua(sucesso, alvo) == sucesso < alvo

\* (faulty variant, for the sensitivity of the properties: the streak not reset by a failure)
TesterSequenciaSemZerar(result, sucesso) == sucesso + 1
\* execucoes_sucesso after the iteration
TesterSequencia(result, sucesso) == IF result THEN sucesso + 1 ELSE 0

\* save_statistics: the file holds the statistics of that moment
save_statistics(stats) == <<stats>>

\* (faulty variant, for the sensitivity of the properties: the file written after every iteration)
ArquivoAposIteracaoSempre(result, stats, antes) == save_statistics(stats)
\* the file after an iteration: written on the failure branch only
ArquivoAposIteracao(result, stats, antes) ==
    IF result THEN antes ELSE save_statistics(stats)

TesterFrame ==
    UNCHANGED <<prog, repeticoes, nome_modulo, successful_runs,
                consecutive_failures, execucoes_falha, tentativas,
                tentativas_consecutivas, estatisticas, fase, coord, chamada, unica, arvore>>

\* testar_modulo: the loop ends, "SUCESSO" is logged and the statistics saved
TestarModuloSair ==
    /\ prog \in SweepsDeModulo
    /\ status = "RUNNING"
    /\ ~TesterContinua(execucoes_sucesso, repeticoes)
    /\ status' = "SUCCEEDED"
    /\ statistics' = ComEntrada(statistics, nome_modulo)
    /\ arquivo' = save_statistics(statistics')
    /\ escrita' = "completa"
    /\ hist' = [hist EXCEPT !.salvamentos = @ + 1]
    /\ UNCHANGED execucoes_sucesso
    /\ TesterFrame

\* testar_modulo: one iteration of the loop
TestarModuloIterar ==
    /\ prog \in SweepsDeModulo
    /\ status = "RUNNING"
    /\ TesterContinua(execucoes_sucesso, repeticoes)
    /\ hist.iteracoes < MaxIteracoesTester
    /\ \E r \in executar_sistema(nome_modulo), fixed \in BOOLEAN :
         /\ (r[1] \/ r[3]) => ~fixed   \* corrigir_erro runs only after an error
         /\ LET s0 == ComEntrada(statistics, nome_modulo)
                s1 == [s0 EXCEPT !.modules_tested[nome_modulo] =
                                     IF r[3] THEN SoTentativa(@)
                                     ELSE EntradaContada(@, r[1], r[2])]
                s2 == IF r[1] \/ r[3] THEN s1
                      ELSE corrigir_erro(s1, nome_modulo, r[2], fixed)
            IN /\ statistics' = s2
               /\ execucoes_sucesso' = IF r[3] THEN execucoes_sucesso
                                       ELSE TesterSequencia(r[1], execucoes_sucesso)
               /\ arquivo' = ArquivoAposIteracao(r[1] \/ r[3], s2, arquivo)
               /\ escrita' = IF r[1] \/ r[3] THEN escrita ELSE "completa"
               /\ status' = IF r[3] THEN "EXCECAO" ELSE status
               /\ hist' = IF r[3] THEN hist
                          ELSE [Registrar(hist, Resultado(r[1], fixed)) EXCEPT
                                  !.salvamentos = IF r[1] THEN @ ELSE @ + 1]
    /\ TesterFrame

\* varredura_geral: the loop ends
VarreduraGeralSair ==
    /\ prog = "varredura_geral"
    /\ status = "RUNNING"
    /\ ~TesterContinua(execucoes_sucesso, repeticoes)
    /\ status' = "SUCCEEDED"
    /\ arquivo' = save_statistics(statistics)
    /\ escrita' = "completa"
    /\ hist' = [hist EXCEPT !.salvamentos = @ + 1]
    /\ UNCHANGED <<execucoes_sucesso, statistics>>
    /\ TesterFrame

\* varredura_geral: one iteration of the loop
VarreduraGeralIterar ==
    /\ prog = "varredura_geral"
    /\ status = "RUNNING"
    /\ TesterContinua(execucoes_sucesso, repeticoes)
    /\ hist.iteracoes < MaxIteracoesTester
    /\ \E r \in executar_sistema(None), fixed \in BOOLEAN :
         /\ (r[1] \/ r[3]) => ~fixed
         /\ LET s1 == [statistics EXCEPT !.general_tests =
                                     IF r[3] THEN SoTentativa(@)
                                     ELSE EntradaContada(@, r[1], r[2])]
                s2 == IF r[1] \/ r[3] THEN s1
                      ELSE corrigir_erro(s1, None, r[2], fixed)
            IN /\ statistics' = s2
               /\ execucoes_sucesso' = IF r[3] THEN execucoes_sucesso
                                       ELSE TesterSequencia(r[1], execucoes_sucesso)
               /\ arquivo' = ArquivoAposIteracao(r[1] \/ r[3], s2, arquivo)
               /\ escrita' = IF r[1] \/ r[3] THEN escrita ELSE "completa"
               /\ status' = IF r[3] THEN "EXCECAO" ELSE status
               /\ hist' = IF r[3] THEN hist
                          ELSE [Registrar(hist, Resultado(r[1], fixed)) EXCEPT
                                  !.salvamentos = IF r[1] THEN @ ELSE @ + 1]
    /\ TesterFrame


----------------------------------------------------------------------------
(* executar_teste_completo (system_tester.py 290-343), as main() calls it: *)
(* completo=False.  `fase` is the step it is at: 1..7 the sweep of         *)
(* MODULOS[fase], then the general sweep, analisar_apis_ia and the end.    *)

FaseGeral == Len(MODULOS) + 1
FaseAnalise == Len(MODULOS) + 2
FaseFinal == Len(MODULOS) + 3

\* the module argument of the sweep of step f (None: the general sweep)
ModuloDaFase(f) == IF f \in 1..Len(MODULOS) THEN MODULOS[f] ELSE None

\* the target the sweep of step f is called with
AlvoDaFase(f) == IF f \in 1..Len(MODULOS) THEN tentativas_modulo ELSE tentativas_geral

\* the counting of one sample by testar_modulo (a module) or varredura_geral
Contar(stats, modulo, success, erro) ==
    IF modulo = None
      THEN [stats EXCEPT !.general_tests = EntradaContada(@, success, erro)]
      ELSE [ComEntrada(stats, modulo) EXCEPT
              !.modules_tested[modulo] = EntradaContada(@, success, erro)]

\* (faulty variant, for the sensitivity of the properties: the general sweep is skipped)
ProximaFaseSemGeral(f) == IF f = Len(MODULOS) THEN FaseAnalise ELSE f + 1
\* the statement that follows the sweep of step f in executar_teste_completo
ProximaFase(f) == f + 1

\* `except Exception as e` of executar_teste_completo: statistics["fatal_error"] = str(e)
ComErroFatal(stats, e) == [fatal_error |-> e] @@ stats

TesteCompletoFrame ==
    UNCHANGED <<prog, successful_runs, consecutive_failures, execucoes_falha,
                tentativas, tentativas_consecutivas, estatisticas, coord,
                chamada, unica, arvore>>

\* one iteration of the sweep executar_teste_completo is in
TesteCompletoIterar ==
    /\ prog = "executar_teste_completo"
    /\ status = "RUNNING"
    /\ fase \in 1..FaseGeral
    /\ TesterContinua(execucoes_sucesso, repeticoes)
    /\ \E r \in executar_sistema(nome_modulo), fixed \in BOOLEAN :
         /\ (r[1] \/ r[3]) => ~fixed
         /\ ~r[1] => hist.falhas < MaxFalhasCompleto
         /\ LET s1 == IF r[3] THEN ComErroFatal(statistics, r[2])
                      ELSE Contar(statistics, nome_modulo, r[1], r[2])
                s2 == IF r[1] \/ r[3] THEN s1
                      ELSE corrigir_erro(s1, nome_modulo, r[2], fixed)
            IN /\ statistics' = s2
               /\ execucoes_sucesso' = IF r[3] THEN execucoes_sucesso
                                       ELSE TesterSequencia(r[1], execucoes_sucesso)
               /\ arquivo' = ArquivoAposIteracao(r[1], s2, arquivo)
               /\ escrita' = IF r[1] THEN escrita ELSE "completa"
               \* an exception out of a sweep is caught by `except Exception`
               /\ status' = IF r[3] THEN "FATAL" ELSE status
               /\ hist' = IF r[3] THEN [hist EXCEPT !.salvamentos = @ + 1]
                          ELSE [Registrar(hist, Resultado(r[1], fixed)) EXCEPT
                                  !.salvamentos = IF r[1] THEN @ ELSE @ + 1]
    /\ UNCHANGED <<fase, nome_modulo, repeticoes>>
    /\ TesteCompletoFrame

\* the sweep executar_teste_completo is in ends (its statistics are saved) and
\* the next statement of executar_teste_completo is reached
TesteCompletoAvancar ==
    /\ prog = "executar_teste_completo"
    /\ status = "RUNNING"
    /\ fase \in 1..FaseGeral
    /\ ~TesterContinua(execucoes_sucesso, repeticoes)
    /\ statistics' = IF nome_modulo = None THEN statistics
                     ELSE ComEntrada(statistics, nome_modulo)
    /\ arquivo' = save_statistics(statistics')
    /\ escrita' = "completa"
    /\ fase' = ProximaFase(fase)
    /\ nome_modulo' = ModuloDaFase(fase')
    /\ repeticoes' = IF fase' <= FaseGeral THEN AlvoDaFase(fase') ELSE repeticoes
    /\ execucoes_sucesso' = IF fase' <= FaseGeral THEN 0 ELSE execucoes_sucesso
    /\ hist' = [hist EXCEPT !.salvamentos = @ + 1,
                            !.amostras_ok = IF fase' <= FaseGeral THEN 0 ELSE @]
    /\ UNCHANGED status
    /\ TesteCompletoFrame

\* the list `otimizacoes` of analisar_apis_ia
otimizacoes ==
    << "Ajuste de parametros baseado em padroes de uso detectados",
       "Otimizacao de rotas de API baseada em analise de latencia",
       "Melhoria de prompts para geracao de conteudo mais preciso",
       "Ajuste de pre-processamento de imagens para melhor reconhecimento",
       "Refinamento dos algoritmos de fallback baseado em taxa de sucesso" >>

Min(a, b) == IF a < b THEN a ELSE b

\* (faulty variant, for the sensitivity of the properties: positions drawn with replacement)
AmostrasComRepeticao ==
    [1..Min(3, Len(otimizacoes)) -> 1..Len(otimizacoes)]
\* random.sample(otimizacoes, k=min(3, len(otimizacoes))): k distinct positions, in any order
Amostras ==
    LET k == Min(3, Len(otimizacoes))
    IN { a \in [1..k -> 1..Len(otimizacoes)] :
           \A i, j \in 1..k : i # j => a[i] # a[j] }

\* the record analisar_apis_ia appends (timestamp left out)
OtimizacaoIA(o) == [ module |-> "IA_analysis", action |-> <<o>> ]

\* (faulty variant, for the sensitivity of the properties: the list is replaced by the sampled optimizations)
analisar_apis_ia_substitui(stats, a) ==
    [stats EXCEPT !.optimizations_applied =
        [i \in 1..Len(a) |-> OtimizacaoIA(otimizacoes[a[i]])]]
\* analisar_apis_ia: the statistics after the sampled optimizations were appended
analisar_apis_ia(stats, a) ==
    [stats EXCEPT !.optimizations_applied =
        @ \o [i \in 1..Len(a) |-> OtimizacaoIA(otimizacoes[a[i]])]]

\* analisar_apis_ia, called after the general sweep
AnalisarApisIA ==
    /\ prog = "executar_teste_completo"
    /\ status = "RUNNING"
    /\ fase = FaseAnalise
    /\ \E a \in Amostras : statistics' = analisar_apis_ia(statistics, a)
    /\ arquivo' = save_statistics(statistics')
    /\ escrita' = "completa"
    /\ fase' = FaseFinal
    /\ hist' = [hist EXCEPT !.salvamentos = @ + 1]
    /\ UNCHANGED <<status, nome_modulo, repeticoes, execucoes_sucesso>>
    /\ TesteCompletoFrame

\* the end of executar_teste_completo: end_time and duration_seconds are set
\* (left out), the statistics are saved and True is returned
TesteCompletoConcluir ==
    /\ prog = "executar_teste_completo"
    /\ status = "RUNNING"
    /\ fase = FaseFinal
    /\ status' = "SUCCEEDED"
    /\ arquivo' = save_statistics(statistics)
    /\ escrita' = "completa"
    /\ hist' = [hist EXCEPT !.salvamentos = @ + 1]
    /\ UNCHANGED <<statistics, fase, nome_modulo, repeticoes, execucoes_sucesso>>
    /\ TesteCompletoFrame

----------------------------------------------------------------------------
(* save_statistics when the write does not complete.  The method opens     *)
(* test_statistics.json with mode "w", which empties the file, and         *)
(* json.dump then writes the text piece by piece into it; there is no      *)
(* temporary file, no rename and no try/except.  `escrita` says how much   *)
(* of the text of arquivo[1] the file holds: "nenhuma" (no write yet),     *)
(* "completa", "truncada" (the file was emptied and nothing written) or    *)
(* "parcial" (a proper prefix was written).                                *)

\* where a call of save_statistics can stop short: open() raises and the file
\* is untouched, or the write stops after open() emptied the file, before the
\* first piece of text or after some of it
Interrupcoes == {"recusada", "truncada", "parcial"}

\* what stops it: an OSError raised by open() or write(), or the end of the process
Causas == {"OSError", "kill"}

\* the file after a call of save_statistics(stats) that stopped at `ponto`
ArquivoInterrompido(stats, antes, ponto) ==
    IF ponto = "recusada" THEN antes ELSE <<stats>>

EscritaInterrompida(antes, ponto) ==
    IF ponto = "recusada" THEN antes ELSE ponto

\* testar_modulo called on its own: an iteration whose sample failed and whose
\* save_statistics does not complete; an OSError leaves testar_modulo
TestarModuloGravacaoFalha ==
    /\ prog = "testar_modulo"
    /\ status = "RUNNING"
    /\ TesterContinua(execucoes_sucesso, repeticoes)
    /\ hist.iteracoes < MaxIteracoesTester
    /\ \E r \in executar_sistema(nome_modulo), fixed \in BOOLEAN,
          ponto \in Interrupcoes, causa \in Causas :
         /\ ~r[1]
         /\ ponto = "recusada" => causa = "OSError"
         /\ LET s0 == ComEntrada(statistics, nome_modulo)
                s1 == [s0 EXCEPT !.modules_tested[nome_modulo] =
                                     EntradaContada(@, r[1], r[2])]
                s2 == corrigir_erro(s1, nome_modulo, r[2], fixed)
            IN /\ statistics' = s2
               /\ execucoes_sucesso' = TesterSequencia(r[1], execucoes_sucesso)
               /\ arquivo' = ArquivoInterrompido(s2, arquivo, ponto)
               /\ escrita' = EscritaInterrompida(escrita, ponto)
               /\ status' = IF causa = "kill" THEN "KILLED" ELSE "EXCECAO"
               /\ hist' = [Registrar(hist, Resultado(r[1], fixed)) EXCEPT
                             !.erro_gravacao = (causa = "OSError")]
    /\ TesterFrame

\* executar_teste_completo: an iteration of the sweep it is in whose sample
\* failed and whose save_statistics raises OSError; the `except Exception`
\* records fatal_error and calls save_statistics again, which completes (False
\* is returned) or raises again (the exception leaves executar_teste_completo)
TesteCompletoGravacaoFalha ==
    /\ prog = "executar_teste_completo"
    /\ status = "RUNNING"
    /\ fase \in 1..FaseGeral
    /\ TesterContinua(execucoes_sucesso, repeticoes)
    /\ hist.falhas < MaxFalhasCompleto
    /\ \E r \in executar_sistema(nome_modulo), fixed \in BOOLEAN,
          ponto \in Interrupcoes, ponto2 \in Interrupcoes \cup {"completa"} :
         /\ ~r[1]
         /\ LET s1 == Contar(statistics, nome_modulo, r[1], r[2])
                s2 == corrigir_erro(s1, nome_modulo, r[2], fixed)
                s3 == ComErroFatal(s2, "OSError")
                a1 == ArquivoInterrompido(s2, arquivo, ponto)
                e1 == EscritaInterrompida(escrita, ponto)
            IN /\ statistics' = s3
               /\ execucoes_sucesso' = TesterSequencia(r[1], execucoes_sucesso)
               /\ IF ponto2 = "completa"
                    THEN /\ arquivo' = save_statistics(s3)
                         /\ escrita' = "completa"
                         /\ status' = "FATAL"
                    ELSE /\ arquivo' = ArquivoInterrompido(s3, a1, ponto2)
                         /\ escrita' = EscritaInterrompida(e1, ponto2)
                         /\ status' = "EXCECAO"
               /\ hist' = [Registrar(hist, Resultado(r[1], fixed)) EXCEPT
                             !.erro_gravacao = TRUE]
    /\ UNCHANGED <<fase, nome_modulo, repeticoes>>
    /\ TesteCompletoFrame

----------------------------------------------------------------------------
(* The statistics file as text.  save_statistics writes json.dump(...,      *)
(* ensure_ascii=False) to a file opened with encoding="utf-8";             *)
(* carregar_estatisticas (visualizar_estatisticas.py 19-26) reads it with  *)
(* open(arquivo, 'r'), that is with the encoding of the reader's locale,   *)
(* and json.load.  A text is a sequence of parts; a part outside ASCII is  *)
(* one character, named by its code point, and is written as its bytes.    *)

\* the UTF-8 bytes of a part
UTF8(c) ==
    CASE c = "U+00E7" -> <<"0xC3", "0xA7">>
      [] c = "U+00E3" -> <<"0xC3", "0xA3">>
      [] OTHER -> <<c>>

\* the character of a two-byte UTF-8 sequence
DeUTF8(b1, b2) ==
    CASE b1 = "0xC3" /\ b2 = "0xA7" -> "U+00E7"
      [] b1 = "0xC3" /\ b2 = "0xA3" -> "U+00E3"
      [] OTHER -> "U+FFFD"

\* the character a single-byte code page (cp1252, latin-1) gives a byte
DeCP1252(b) ==
    CASE b = "0xC3" -> "U+00C3"
      [] b = "0xA7" -> "U+00A7"
      [] b = "0xA3" -> "U+00A3"
      [] OTHER -> b

BytesAltos == {"0xC3", "0xA7", "0xA3"}

\* the encodings locale.getpreferredencoding() can give the reader
Codificacoes == {"utf-8", "cp1252"}

RECURSIVE Codificar(_)
\* text -> bytes, as the file object opened with encoding="utf-8" writes it
Codificar(t) ==
    IF t = <<>> THEN <<>> ELSE UTF8(Head(t)) \o Codificar(Tail(t))

RECURSIVE Decodificar(_, _)
\* bytes -> text, as the file object opened with encoding enc reads it
Decodificar(b, enc) ==
    IF b = <<>> THEN <<>>
    ELSE IF Head(b) \notin BytesAltos
      THEN <<Head(b)>> \o Decodificar(Tail(b), enc)
    ELSE IF enc = "utf-8" /\ Len(b) >= 2
      THEN <<DeUTF8(b[1], b[2])>> \o Decodificar(Tail(Tail(b)), enc)
    ELSE <<DeCP1252(Head(b))>> \o Decodificar(Tail(b), enc)

\* a dict key in JSON: a str stays, None becomes "null"
ChaveJSON(k) == IF k = None THEN "null" ELSE k

\* the dict f with every key k written as ChaveJSON(k)
ComChavesJSON(f) ==
    [ k \in { ChaveJSON(x) : x \in DOMAIN f } |->
        f[CHOOSE x \in DOMAIN f : ChaveJSON(x) = k] ]

\* a text on its way to the file (modo "dump") or back from it (modo: the
\* encoding the reader decodes with)
Recodificar(t, modo) ==
    IF modo = "dump" THEN Codificar(t) ELSE Decodificar(t, modo)

\* the texts of an entry (the keys of errors) and of a record (error, action)
\* recoded; the numbers and the module names are ASCII
EntradaComTextos(e, modo) ==
    [e EXCEPT !.errors =
        [ k \in { Recodificar(x, modo) : x \in DOMAIN @ } |->
            @[CHOOSE x \in DOMAIN @ : Recodificar(x, modo) = k] ]]

RegistroComTextos(o, modo) ==
    [ k \in DOMAIN o |->
        IF k \in {"error", "action"} THEN Recodificar(o[k], modo) ELSE o[k] ]

EstatisticasComTextos(stats, modo) ==
    [ k \in DOMAIN stats |->
        CASE k = "modules_tested" ->
               [ m \in DOMAIN stats[k] |-> EntradaComTextos(stats[k][m], modo) ]
          [] k = "general_tests" -> EntradaComTextos(stats[k], modo)
          [] k = "optimizations_applied" ->
               [ i \in 1..Len(stats[k]) |-> RegistroComTextos(stats[k][i], modo) ]
          [] OTHER -> stats[k] ]

\* json.dump(self.statistics, f, ensure_ascii=False) on a UTF-8 file: the bytes written
json_dump(stats) ==
    LET s1 == [stats EXCEPT !.modules_tested = ComChavesJSON(@)]
    IN EstatisticasComTextos(s1, "dump")

\* json.load on a file opened with encoding enc
json_load(bytes, enc) == EstatisticasComTextos(bytes, enc)

\* carregar_estatisticas: the object read back from a complete file; None when
\* there is no file or its text is not a JSON document (`except Exception`)
carregar_estatisticas(arq, escr, enc) ==
    IF arq = <<>> \/ escr # "completa" THEN None
    ELSE json_load(json_dump(arq[1]), enc)

----------------------------------------------------------------------------
(* The main script (src/backups/inicial/main.py)                           *)

\* rodar_sistema(): (True, None), or (False, "<tipo> em <modulo>") for a module
\* drawn from the list and an error drawn from that module's list
rodar_sistema_inicial ==
    { <<TRUE, None>> } \cup
    UNION { { <<FALSE, <<e, " em ", m>>>> : e \in Elems(erros_por_modulo(m)) } :
              m \in ModuloNomes }

\* the keys of acoes_correcao
acoes_correcao ==
    UNION { DOMAIN acoes(m) : m \in ModuloNomes }

\* erro.split(" em "): the parts between the separators
RECURSIVE Partes(_)
Partes(erro) ==
    IF \A i \in 1..Len(erro) : erro[i] # " em " THEN <<erro>>
    ELSE LET i == CHOOSE j \in 1..Len(erro) :
                     erro[j] = " em " /\ \A k \in 1..(j - 1) : erro[k] # " em "
         IN <<SubSeq(erro, 1, i - 1)>> \o Partes(SubSeq(erro, i + 1, Len(erro)))

\* corrigir_erro(erro): the verdicts it can return
corrigir_erro_inicial(erro) ==
    IF erro = None \/ erro = <<>> THEN {TRUE}       \* `if not erro`
    ELSE IF Len(Partes(erro)) # 2 THEN {FALSE}
    ELSE BOOLEAN      \* a draw of 0.95 for a known tipo_erro, of 0.5 otherwise

\* (faulty variant, for the sensitivity of the properties: correcoes not counted)
EstatisticasSemCorrecao(e, sucesso, erro, corrigido) ==
    IF sucesso THEN [e EXCEPT !.sucesso = @ + 1]
    ELSE [e EXCEPT !.falhas = @ + 1,
                   !.tipos_erro = ContarErro(@, erro),
                   !.falhas_correcao = IF corrigido THEN @ ELSE @ + 1]
\* the record after one iteration
EstatisticasContadas(e, sucesso, erro, corrigido) ==
    IF sucesso THEN [e EXCEPT !.sucesso = @ + 1]
    ELSE [e EXCEPT !.falhas = @ + 1,
                   !.tipos_erro = ContarErro(@, erro),
                   !.correcoes = IF corrigido THEN @ + 1 ELSE @,
                   !.falhas_correcao = IF corrigido THEN @ ELSE @ + 1]

\* (faulty variant, for the sensitivity of the properties: one more iteration at the target)
InicialContinuaAteIgual(consecutivas, alvo) == consecutivas <= alvo
\* `while execucoes_consecutivas < repeticoes`
InicialContinua(consecutivas, alvo) == consecutivas < alvo

InicialFrame ==
    UNCHANGED <<prog, repeticoes, nome_modulo, successful_runs,
                consecutive_failures, execucoes_falha, tentativas,
                tentativas_consecutivas, statistics, fase, coord, chamada, unica, arvore>>

\* the loop ends: the record is written to varredura_estatisticas.json
VarreduraInicialSair ==
    /\ prog = "varredura_inicial"
    /\ status = "RUNNING"
    /\ ~InicialContinua(execucoes_sucesso, repeticoes)
    /\ status' = "SUCCEEDED"
    /\ arquivo' = <<estatisticas>>
    /\ escrita' = "completa"
    /\ hist' = [hist EXCEPT !.salvamentos = @ + 1]
    /\ UNCHANGED <<execucoes_sucesso, estatisticas>>
    /\ InicialFrame

\* one iteration of the loop (execucoes_consecutivas is execucoes_sucesso here)
VarreduraInicialIterar ==
    /\ prog = "varredura_inicial"
    /\ status = "RUNNING"
    /\ InicialContinua(execucoes_sucesso, repeticoes)
    /\ hist.iteracoes < MaxIteracoesInicial
    /\ \E r \in rodar_sistema_inicial :
         \E corrigido \in (IF r[1] THEN {FALSE} ELSE corrigir_erro_inicial(r[2])) :
            /\ execucoes_sucesso' = IF r[1] THEN execucoes_sucesso + 1 ELSE 0
            /\ estatisticas' = EstatisticasContadas(estatisticas, r[1], r[2], corrigido)
            /\ hist' = Registrar(hist, Resultado(r[1], corrigido))
    /\ UNCHANGED <<status, arquivo, escrita>>
    /\ InicialFrame

----------------------------------------------------------------------------
(* One call of a Corrector, on arguments drawn from the bounded sets        *)

\* (faulty variant, for the sensitivity of the properties: 0.5 when the text will be the generic one)
chance_correcao_pela_tabela(modulo, erro) ==
    IF \E t \in DOMAIN acoes(modulo) : Contem(t, erro) THEN 950 ELSE 500
\* `correcao_sucesso = random.random() < 0.95` of SystemTester.corrigir_erro,
\* in thousandths: the same draw whatever _gerar_acao_correcao will yield
chance_correcao(modulo, erro) == 950

\* the verdicts a draw of `random.random() < chance / 1000` can give
Sorteio(chance) ==
    IF chance >= 1000 THEN {TRUE} ELSE IF chance <= 0 THEN {FALSE} ELSE BOOLEAN

\* `tipo_erro, modulo = partes` and `if tipo_erro in acoes_correcao`
TipoConhecido(erro) ==
    /\ Len(Partes(erro)) = 2
    /\ Len(Partes(erro)[1]) = 1
    /\ Partes(erro)[1][1] \in acoes_correcao

\* acoes_correcao[tipo_erro]: the flat table of the main script holds, under
\* each kind alone, the text the nested table holds for it
acao_inicial(erro) ==
    IF erro = <<>> \/ ~TipoConhecido(erro) THEN ""
    ELSE LET tipo == Partes(erro)[1][1]
         IN acoes(CHOOSE m \in ModuloNomes : tipo \in DOMAIN acoes(m))[tipo]

\* the probability of True of the main script's corrigir_erro, in thousandths:
\* no draw without an error (True) or with a malformed message (False)
chance_inicial(erro) ==
    IF erro = <<>> THEN 1000
    ELSE IF Len(Partes(erro)) # 2 THEN 0
    ELSE IF TipoConhecido(erro) THEN 950
    ELSE 500

ChamadaFrame ==
    UNCHANGED <<prog, repeticoes, nome_modulo, successful_runs,
                consecutive_failures, execucoes_sucesso, execucoes_falha,
                tentativas, tentativas_consecutivas, estatisticas, arquivo,
                escrita, fase, coord, unica, arvore, hist>>

\* SystemTester._gerar_acao_correcao(modulo, erro)
GerarAcaoCorrecao ==
    /\ prog = "_gerar_acao_correcao"
    /\ status = "RUNNING"
    /\ chamada' = [chamada EXCEPT !.feito = TRUE,
                      !.descricao = _gerar_acao_correcao(chamada.modulo, chamada.erro)]
    /\ status' = "RETURNED"
    /\ UNCHANGED statistics
    /\ ChamadaFrame

\* SystemTester.corrigir_erro(modulo, erro): the draw, and on success the
\* description and its record
CorrigirErro ==
    /\ prog = "corrigir_erro"
    /\ status = "RUNNING"
    /\ \E v \in Sorteio(chance_correcao(chamada.modulo, chamada.erro)) :
         /\ chamada' = [chamada EXCEPT !.feito = TRUE,
                           !.chance = chance_correcao(chamada.modulo, chamada.erro),
                           !.veredito = v,
                           !.descricao = IF v THEN _gerar_acao_correcao(chamada.modulo,
                                                                        chamada.erro)
                                         ELSE ""]
         /\ statistics' = corrigir_erro(statistics, chamada.modulo, chamada.erro, v)
    /\ status' = "RETURNED"
    /\ ChamadaFrame

\* corrigir_erro(erro) of the main script
CorrigirErroInicial ==
    /\ prog = "corrigir_erro_inicial"
    /\ status = "RUNNING"
    /\ \E v \in corrigir_erro_inicial(chamada.erro) :
         chamada' = [chamada EXCEPT !.feito = TRUE,
                       !.chance = chance_inicial(chamada.erro),
                       !.veredito = v,
                       !.descricao = acao_inicial(chamada.erro)]
    /\ status' = "RETURNED"
    /\ UNCHANGED statistics
    /\ ChamadaFrame

----------------------------------------------------------------------------
(* The main script run once (src/backups/inicial/main.py, __main__)         *)

\* (faulty variant, for the sensitivity of the properties: the system run again after any failure)
RodarDeNovoSempre(sucesso, corrigido) == ~sucesso
\* `if not sucesso: corrigido = corrigir_erro(erro); if corrigido:` the system runs again
RodarDeNovo(sucesso, corrigido) == ~sucesso /\ corrigido

UnicaFrame ==
    UNCHANGED <<prog, repeticoes, nome_modulo, successful_runs,
                consecutive_failures, execucoes_sucesso, execucoes_falha,
                tentativas, tentativas_consecutivas, statistics, estatisticas,
                arquivo, escrita, fase, coord, chamada, arvore, hist>>

\* `sucesso, erro = rodar_sistema()`, the first time and after a correction
UnicaRodar ==
    /\ prog = "execucao_unica"
    /\ unica.pc \in {"rodar", "rodar_de_novo"}
    /\ \E r \in rodar_sistema_inicial :
         unica' = [unica EXCEPT
                     !.sucesso = r[1],
                     !.erro = IF r[1] THEN <<>> ELSE r[2],
                     !.execucoes = Append(@, r[1]),
                     !.pc = IF unica.pc = "rodar" /\ ~r[1] THEN "corrigir" ELSE "final"]
    /\ UNCHANGED status
    /\ UnicaFrame

\* `corrigido = corrigir_erro(erro)`
UnicaCorrigir ==
    /\ prog = "execucao_unica"
    /\ unica.pc = "corrigir"
    /\ \E v \in corrigir_erro_inicial(unica.erro) :
         unica' = [unica EXCEPT
                     !.corrigido = v,
                     !.vereditos = Append(@, v),
                     !.pc = IF RodarDeNovo(unica.sucesso, v) THEN "rodar_de_novo"
                            ELSE "final"]
    /\ UNCHANGED status
    /\ UnicaFrame

\* `if sucesso: logger.info("Sistema finalizado com sucesso") else: logger.error(...)`
UnicaFinalizar ==
    /\ prog = "execucao_unica"
    /\ unica.pc = "final"
    /\ unica' = [unica EXCEPT !.final = IF unica.sucesso THEN "sucesso" ELSE "erro",
                              !.pc = "done"]
    /\ status' = "RETURNED"
    /\ UnicaFrame

----------------------------------------------------------------------------
(* Backup and restore (src/backups/inicial/scripts/atualizar_sistema.py)    *)

\* shutil.copytree(origem, destino, dirs_exist_ok=True): the files of origem
\* are written into destino, the other files of an existing destino stay
copytree_sobre(origem, destino) ==
    IF destino = <<>> THEN origem
    ELSE << origem[1] \cup { a \in destino[1] : \A b \in origem[1] : b[1] # a[1] } >>

\* criar_backup(nome): the backups afterwards.  makedirs(exist_ok=True)
\* keeps an existing backup directory of that name
criar_backup(trabalho, backups, nome) ==
    LET velho == IF backups[nome] = <<>> THEN ArvoreVazia ELSE backups[nome][1]
        novo ==
          [ dirs |-> [d \in Elems(diretorios) |->
                        IF trabalho.dirs[d] # <<>>
                          THEN copytree_sobre(trabalho.dirs[d], velho.dirs[d])
                          ELSE velho.dirs[d]],
            arqs |-> [f \in Elems(arquivos) |->
                        IF trabalho.arqs[f] # <<>> THEN trabalho.arqs[f]
                        ELSE velho.arqs[f]] ]
    IN [backups EXCEPT ![nome] = <<novo>>]

\* os.path.dirname(arquivo) of a listed file: the names have no directory part
dirname(arq) == ""

\* os.makedirs(name, exist_ok=True) raises FileNotFoundError for the empty name
makedirs_levanta(name) == name = ""

\* restaurar_backup(nome): the working tree afterwards and what the call
\* gave: "False" without the backup; else every directory of the backup
\* replaces the one of the tree (rmtree, copytree), and then the files are
\* copied one by one, each after makedirs of its dirname
restaurar_backup(trabalho, backups, nome) ==
    IF backups[nome] = <<>> THEN [trabalho |-> trabalho, retorno |-> "False"]
    ELSE LET b == backups[nome][1]
             com_dirs == [trabalho EXCEPT !.dirs =
                            [d \in Elems(diretorios) |->
                               IF b.dirs[d] # <<>> THEN b.dirs[d] ELSE trabalho.dirs[d]]]
             \* the files of the backup, in the order of the list
             presentes == { i \in 1..Len(arquivos) : b.arqs[arquivos[i]] # <<>> }
             \* the first of them whose makedirs raises
             falhas == { i \in presentes : makedirs_levanta(dirname(arquivos[i])) }
             ate == IF falhas = {} THEN Len(arquivos) + 1
                    ELSE CHOOSE i \in falhas : \A j \in falhas : i <= j
         IN [ trabalho |->
                [com_dirs EXCEPT !.arqs =
                   [f \in Elems(arquivos) |->
                      IF \E i \in presentes : i < ate /\ arquivos[i] = f
                        THEN b.arqs[f] ELSE trabalho.arqs[f]]],
              retorno |-> IF falhas = {} THEN "True" ELSE "raised" ]

ArvoreFrame ==
    UNCHANGED <<prog, repeticoes, nome_modulo, successful_runs,
                consecutive_failures, execucoes_sucesso, execucoes_falha,
                tentativas, tentativas_consecutivas, statistics, estatisticas,
                arquivo, escrita, fase, coord, chamada, unica, hist>>

\* criar_backup("b")
CriarBackup ==
    /\ prog = "backup_e_restauracao"
    /\ arvore.pc = "criar"
    /\ arvore' = [arvore EXCEPT
                    !.backups = criar_backup(arvore.trabalho, arvore.backups, "b"),
                    !.no_backup = arvore.trabalho,
                    !.pc = "modificar"]
    /\ UNCHANGED status
    /\ ArvoreFrame

\* the working tree is changed after the backup, in any way
ModificarArvore ==
    /\ prog = "backup_e_restauracao"
    /\ arvore.pc = "modificar"
    /\ \E t \in Arvores :
         arvore' = [arvore EXCEPT !.trabalho = t, !.pc = "restaurar"]
    /\ UNCHANGED status
    /\ ArvoreFrame

\* restaurar_backup(nome)
RestaurarBackup ==
    /\ prog = "backup_e_restauracao"
    /\ arvore.pc = "restaurar"
    /\ \E n \in NomesDeBackup :
         LET r == restaurar_backup(arvore.trabalho, arvore.backups, n)
         IN /\ arvore' = [arvore EXCEPT
                            !.antes = arvore.trabalho,
                            !.nome = n,
                            !.trabalho = r.trabalho,
                            !.retorno = r.retorno,
                            !.pc = "done"]
            /\ status' = IF r.retorno = "raised" THEN "EXCECAO" ELSE "RETURNED"
    /\ ArvoreFrame

----------------------------------------------------------------------------
(* The coordinator (src/scripts/run_system_tests.py, main)                  *)

\* the exit codes of a child: 0, an error exit, a kill by signal
RetornosDoFilho == {0, 1, 0 - 9}

\* `if args.mode in ["full", "demo", "simulation"]`
SimulacaoSelecionada(mode) == mode \in {"full", "demo", "simulation"}

\* `if args.mode in ["full", "demo", "integration"]`
IntegracaoSelecionada(mode) == mode \in {"full", "demo", "integration"}

\* run_simulation_tests: `if return_code == 0: ... return True else: return False`
run_simulation_tests(return_code) == return_code = 0

\* (faulty variant, for the sensitivity of the properties: the integration phase left out of the code)
CodigoDoCoordenadorSoSimulacao(sim_success, int_success) ==
    IF sim_success THEN 0 ELSE 1
\* main() of run_system_tests.py: `return 0 if sim_success and int_success else 1`
CodigoDoCoordenador(sim_success, int_success) ==
    IF sim_success /\ int_success THEN 0 ELSE 1

\* run_integration_tests: `if return_code == 0: ... return True else: return False`
run_integration_tests(return_code) == return_code = 0

CoordFrame ==
    UNCHANGED <<prog, repeticoes, nome_modulo, successful_runs,
                consecutive_failures, execucoes_sucesso, execucoes_falha,
                tentativas, tentativas_consecutivas, statistics, estatisticas,
                arquivo, escrita, fase, chamada, unica, arvore, hist>>

\* the states of main where a phase waits for its child
Esperas == {"simulation_wait", "integration_wait"}

\* the state of main after a phase
DepoisDe(pc) ==
    IF pc \in {"simulation", "simulation_wait"} THEN "integration" ELSE "analysis"

\* the phase of a state of main
FaseDe(pc) ==
    IF pc \in {"simulation", "simulation_wait"} THEN "simulation" ELSE "integration"

\* the coordinator with the result of the phase in progress, the child gone
ComResultado(c, ok) ==
    [ c EXCEPT !.pc = DepoisDe(c.pc),
               !.sim_success = IF FaseDe(c.pc) = "simulation" THEN ok ELSE @,
               !.int_success = IF FaseDe(c.pc) = "integration" THEN ok ELSE @,
               !.resultados = Append(@, [fase |-> FaseDe(c.pc), ok |-> ok]),
               !.filho = "none",
               !.a_escrever = [stdout |-> 0, stderr |-> 0],
               !.pipe = [stdout |-> 0, stderr |-> 0],
               !.return_code = 0 ]

\* subprocess.Popen(cmd, stdout=PIPE, stderr=PIPE): the child starts with
\* some output to write to each stream, or Popen raises and the phase
\* returns False
IniciarFase(c, wait) ==
    { ComResultado([c EXCEPT !.iniciados = Append(@, FaseDe(c.pc))], FALSE) }
    \cup
    { [ c EXCEPT !.pc = wait,
                 !.iniciados = Append(@, FaseDe(c.pc)),
                 !.filho = "running",
                 !.a_escrever = [stdout |-> no, stderr |-> ne] ] :
        no \in 0..MaxSaida, ne \in 0..MaxSaida }

\* main: the simulation phase, if the mode selects it
CoordSimular ==
    /\ prog = "run_system_tests.main"
    /\ coord.pc = "simulation"
    /\ IF SimulacaoSelecionada(coord.mode)
         THEN coord' \in IniciarFase(coord, "simulation_wait")
         ELSE coord' = [coord EXCEPT !.pc = "integration"]
    /\ UNCHANGED status
    /\ CoordFrame

\* main: the integration phase, if the mode selects it
CoordIntegrar ==
    /\ prog = "run_system_tests.main"
    /\ coord.pc = "integration"
    /\ IF IntegracaoSelecionada(coord.mode)
         THEN coord' \in IniciarFase(coord, "integration_wait")
         ELSE coord' = [coord EXCEPT !.pc = "analysis"]
    /\ UNCHANGED status
    /\ CoordFrame

\* the child writes a line to a stream: it blocks while that pipe is full
FilhoEscrever ==
    /\ prog = "run_system_tests.main"
    /\ coord.pc \in Esperas
    /\ coord.filho = "running"
    /\ \E f \in {"stdout", "stderr"} :
         /\ coord.a_escrever[f] > 0
         /\ coord.pipe[f] < CapacidadeDoPipe
         /\ coord' = [coord EXCEPT !.a_escrever[f] = @ - 1, !.pipe[f] = @ + 1]
    /\ UNCHANGED status
    /\ CoordFrame

\* the child exits when it has written all its output
FilhoSair ==
    /\ prog = "run_system_tests.main"
    /\ coord.pc \in Esperas
    /\ coord.filho = "running"
    /\ coord.a_escrever = [stdout |-> 0, stderr |-> 0]
    /\ \E rc \in RetornosDoFilho :
         coord' = [coord EXCEPT !.filho = "exited", !.return_code = rc]
    /\ UNCHANGED status
    /\ CoordFrame

\* `output = process.stdout.readline()` gets a line: it blocks while the
\* stdout pipe is empty and the child has it open.  Nothing reads stderr
CoordLerLinha ==
    /\ prog = "run_system_tests.main"
    /\ coord.pc \in Esperas
    /\ coord.pipe.stdout > 0
    /\ coord' = [coord EXCEPT !.pipe.stdout = @ - 1]
    /\ UNCHANGED status
    /\ CoordFrame

\* `if output == '' and process.poll() is not None: break`, then
\* `return_code = process.wait()` and the result of the phase
CoordFimDaFase ==
    /\ prog = "run_system_tests.main"
    /\ coord.pc \in Esperas
    /\ coord.pipe.stdout = 0
    /\ coord.filho = "exited"
    /\ coord' = ComResultado(coord,
                    IF FaseDe(coord.pc) = "simulation"
                      THEN run_simulation_tests(coord.return_code)
                      ELSE run_integration_tests(coord.return_code))
    /\ UNCHANGED status
    /\ CoordFrame

\* main: `results = analyze_results(run_dir)`
CoordAnalisar ==
    /\ prog = "run_system_tests.main"
    /\ coord.pc = "analysis"
    /\ coord' = [coord EXCEPT !.pc = "return", !.analises = @ + 1]
    /\ UNCHANGED status
    /\ CoordFrame

\* main: `return 0 if sim_success and int_success else 1`
CoordRetornar ==
    /\ prog = "run_system_tests.main"
    /\ coord.pc = "return"
    /\ coord' = [coord EXCEPT
                   !.pc = "done",
                   !.retorno = CodigoDoCoordenador(coord.sim_success, coord.int_success)]
    /\ status' = "RETURNED"
    /\ CoordFrame

----------------------------------------------------------------------------
Next ==
    \/ RunnerSair
    \/ RunnerAbortar
    \/ RunnerIterar
    \/ VarreduraSair
    \/ VarreduraIterar
    \/ ResilienciaSair
    \/ ResilienciaIterar
    \/ TestarModuloSair
    \/ TestarModuloIterar
    \/ VarreduraGeralSair
    \/ VarreduraGeralIterar
    \/ VarreduraInicialSair
    \/ VarreduraInicialIterar
    \/ TesteCompletoIterar
    \/ TesteCompletoAvancar
    \/ AnalisarApisIA
    \/ TesteCompletoConcluir
    \/ GerarAcaoCorrecao
    \/ CorrigirErro
    \/ CorrigirErroInicial
    \/ CoordSimular
    \/ CoordIntegrar
    \/ FilhoEscrever
    \/ FilhoSair
    \/ CoordLerLinha
    \/ CoordFimDaFase
    \/ CoordAnalisar
    \/ CoordRetornar
    \/ UnicaRodar
    \/ UnicaCorrigir
    \/ UnicaFinalizar
    \/ CriarBackup
    \/ ModificarArvore
    \/ RestaurarBackup

Spec == Init /\ [][Next]_vars

\* the coordinator alone, under a scheduler that lets a process that can run
\* take a step
InitCoordenador == Init /\ prog = "run_system_tests.main"

NextCoordenador ==
    \/ CoordSimular
    \/ CoordIntegrar
    \/ FilhoEscrever
    \/ FilhoSair
    \/ CoordLerLinha
    \/ CoordFimDaFase
    \/ CoordAnalisar
    \/ CoordRetornar

SpecCoordenador ==
    InitCoordenador /\ [][NextCoordenador]_vars /\ WF_vars(NextCoordenador)

\* the same programs where a write of the statistics file may not complete
NextComFalhas ==
    \/ Next
    \/ TestarModuloGravacaoFalha
    \/ TesteCompletoGravacaoFalha

SpecComFalhas == Init /\ [][NextComFalhas]_vars


----------------------------------------------------------------------------
(* Vocabulary of the properties                                            *)

\* the consecutive-success counter of the running loop
Sucessos ==
    IF prog = "SystemRunner.run" THEN successful_runs ELSE execucoes_sucesso

\* the failure counter of the loops that keep one
Falhas ==
    CASE prog = "SystemRunner.run" -> consecutive_failures
      [] prog = "realizar_varredura" -> execucoes_falha
      [] prog = "executar_com_resiliencia" -> tentativas_consecutivas
      [] OTHER -> hist.nao_corrigidas

\* the failure threshold of the loops that have one
Limite ==
    CASE prog = "SystemRunner.run" -> MAX_CONSECUTIVE_FAILURES
      [] prog = "realizar_varredura" -> LIMITE_FALHAS
      [] prog = "executar_com_resiliencia" -> max_tentativas
      [] OTHER -> MAX_CONSECUTIVE_FAILURES

ComLimite ==
    prog \in {"SystemRunner.run", "realizar_varredura", "executar_com_resiliencia"}

ComCorretor ==
    prog \in {"SystemRunner.run", "testar_modulo", "varredura_geral", "varredura_inicial"}

\* every sample so far failed and no correction succeeded
TudoFalhou == ~hist.houve_sucesso /\ ~hist.houve_correcao

\* every sample so far failed and every correction succeeded
TudoCorrigido == ~hist.houve_sucesso /\ ~hist.houve_falha_correcao

----------------------------------------------------------------------------
\* C1: in SystemRunner.run, realizar_varredura and executar_com_resiliencia the
\* consecutive-success counter and the failure counter are never both positive.
C1_NuncaAmbosPositivos ==
    ComLimite => ~(Sucessos > 0 /\ Falhas > 0)

----------------------------------------------------------------------------
----------------------------------------------------------------------------
----------------------------------------------------------------------------
----------------------------------------------------------------------------
\* C5: a sweep whose samples keep failing and whose corrections keep failing
\* stops with ABORTED: once its uncorrected failures in a row exceed the
\* threshold (the one the repository uses, MAX_CONSECUTIVE_FAILURES) the
\* per-module sweep, the general sweep and the main-script sweep are ABORTED.
C5_VarreduraAborta ==
    (prog \in {"testar_modulo", "varredura_geral", "varredura_inicial"}
       /\ hist.nao_corrigidas > MAX_CONSECUTIVE_FAILURES) => status = "ABORTED"


----------------------------------------------------------------------------
Iteracoes ==
    \/ RunnerIterar \/ VarreduraIterar \/ ResilienciaIterar
    \/ TestarModuloIterar \/ VarreduraGeralIterar \/ VarreduraInicialIterar

Saidas ==
    \/ RunnerSair \/ VarreduraSair \/ ResilienciaSair
    \/ TestarModuloSair \/ VarreduraGeralSair \/ VarreduraInicialSair

\* the entry of module m, an absent one read as empty
Entrada(stats, m) ==
    IF m \in DOMAIN stats.modules_tested THEN stats.modules_tested[m] ELSE EntradaVazia

\* C6: with a target of 0 the loop ends SUCCEEDED at once: from the start only
\* the exit of the loop can be taken, nothing is sampled, no attempt is counted
\* and the Corrector is never called.
C6_AlvoZeroTerminaJa ==
    repeticoes = 0 =>
        /\ status # "ABORTED"
        /\ status = "RUNNING" => (ENABLED Saidas /\ ~ENABLED Iteracoes)
        /\ hist.iteracoes = 0 /\ tentativas = 0
        /\ ~hist.houve_correcao /\ ~hist.houve_falha_correcao
        /\ statistics.general_tests.attempts = 0
        /\ \A m \in DOMAIN statistics.modules_tested :
              statistics.modules_tested[m].attempts = 0
        /\ statistics.optimizations_applied = <<>>
        /\ estatisticas = EstatisticasVarredura(0)

\* testar_modulo with tentativas = 0 has ended with SUCCEEDED
C6_Witness ==
    /\ prog = "testar_modulo"
    /\ repeticoes = 0
    /\ status = "SUCCEEDED"
    /\ Entrada(statistics, nome_modulo).attempts = 0

----------------------------------------------------------------------------
\* C7: every iteration adds exactly one attempt whatever its outcome (attempts
\* is the number of iterations made), and attempts = successes + failures in
\* every module entry and in general_tests.
C7_TentativasSomam ==
    /\ \A m \in DOMAIN statistics.modules_tested :
          LET e == statistics.modules_tested[m]
          IN e.attempts = e.successes + e.failures
    /\ LET g == statistics.general_tests
       IN g.attempts = g.successes + g.failures
    /\ prog = "testar_modulo" =>
          Entrada(statistics, nome_modulo).attempts = hist.iteracoes
    /\ prog = "varredura_geral" =>
          statistics.general_tests.attempts = hist.iteracoes

\* a module sweep that has counted a success, a fixed and an unfixed failure
C7_Witness ==
    /\ prog = "testar_modulo"
    /\ Entrada(statistics, nome_modulo).successes > 0
    /\ Entrada(statistics, nome_modulo).failures > 1
    /\ hist.houve_correcao /\ hist.houve_falha_correcao

----------------------------------------------------------------------------
\* C8: in realizar_varredura and SystemRunner.run the failure counter is the
\* number of uncorrected failures in a row with no success or fix between them,
\* and the loop is ABORTED only when that number exceeds the threshold.
C8_SoFalhasSeguidas ==
    prog \in {"realizar_varredura", "SystemRunner.run"} =>
        /\ Falhas = hist.nao_corrigidas
        /\ status = "ABORTED" => hist.nao_corrigidas > Limite

----------------------------------------------------------------------------
\* C9 as stated: after every completed iteration of SystemRunner.run and of
\* testar_modulo exactly one of consecutive successes and consecutive failures
\* is positive (testar_modulo keeps no failure counter: its consecutive failures
\* are the uncorrected failures in a row).
C9_ExatamenteUmPositivo ==
    (prog \in {"SystemRunner.run", "testar_modulo"} /\ hist.iteracoes > 0) =>
        ((Sucessos > 0) # (Falhas > 0))

\* C9 amended: after every completed iteration at most one of the two is
\* positive; in SystemRunner.run exactly one is; in testar_modulo the successes
\* are positive after a success and 0 after a failure, and both are 0 exactly
\* after a failure that the Corrector fixed.
C9_NoMaximoUmPositivo ==
    (prog \in {"SystemRunner.run", "testar_modulo"} /\ hist.iteracoes > 0) =>
        /\ ~(Sucessos > 0 /\ Falhas > 0)
        /\ prog = "SystemRunner.run" => ((Sucessos > 0) # (Falhas > 0))
        /\ prog = "testar_modulo" =>
              /\ (Sucessos > 0) <=> (hist.ultimo = "success")
              /\ (Sucessos = 0 /\ Falhas = 0) <=> (hist.ultimo = "fixed")

\* testar_modulo after a failure the Corrector fixed: neither is positive
C9_Witness ==
    /\ prog = "testar_modulo"
    /\ hist.iteracoes > 0
    /\ hist.ultimo = "fixed"
    /\ execucoes_sucesso = 0
    /\ hist.nao_corrigidas = 0

----------------------------------------------------------------------------
RECURSIVE SomaEntradas(_, _)
SomaEntradas(tested, nomes) ==
    IF nomes = {} THEN 0
    ELSE LET m == CHOOSE x \in nomes : TRUE
         IN tested[m].successes + tested[m].failures
              + SomaEntradas(tested, nomes \ {m})

\* recorded events of a SystemTester statistics: successes, failures, corrections
Eventos(stats) ==
    SomaEntradas(stats.modules_tested, DOMAIN stats.modules_tested)
      + stats.general_tests.successes + stats.general_tests.failures
      + Len(stats.optimizations_applied)

\* recorded events of the main-script record
EventosVarredura(e) == e.sucesso + e.falhas + e.correcoes + e.falhas_correcao

\* events in memory that the statistics file does not hold
EventosPerdidos ==
    IF prog = "varredura_inicial"
      THEN EventosVarredura(estatisticas)
             - (IF arquivo = <<>> THEN 0 ELSE EventosVarredura(arquivo[1]))
      ELSE Eventos(statistics) - (IF arquivo = <<>> THEN 0 ELSE Eventos(arquivo[1]))

SemSequencia(stats, k) ==
    IF prog = "testar_modulo"
      THEN [stats EXCEPT !.modules_tested[nome_modulo] =
                            [@ EXCEPT !.attempts = @ - k, !.successes = @ - k]]
      ELSE [stats EXCEPT !.general_tests =
                            [@ EXCEPT !.attempts = @ - k, !.successes = @ - k]]

----------------------------------------------------------------------------
\* C11: persisting is atomic: whatever the point at which save_statistics
\* stops (an error of the write, the end of the process), the statistics file
\* holds a complete snapshot, the new one or the previous one (or was never
\* written); it is never empty and never holds part of a snapshot.
C11_GravacaoAtomica ==
    /\ escrita \in {"nenhuma", "completa"}
    /\ escrita = "nenhuma" <=> arquivo = <<>>

----------------------------------------------------------------------------
\* C12: an I/O error while the statistics are persisted does not stop the loop
\* and does not change its verdict: after a write raised, the sweep is still
\* RUNNING, or has ended SUCCEEDED or ABORTED as its samples decide, and no
\* fatal error is recorded.
C12_ErroDeGravacaoNaoPara ==
    hist.erro_gravacao =>
        /\ status \in {"RUNNING", "SUCCEEDED", "ABORTED"}
        /\ "fatal_error" \notin DOMAIN statistics

----------------------------------------------------------------------------
(* Exit status.  No script of the loops calls sys.exit: the interpreter    *)
(* exits with 0 when __main__ runs to its end, with 1 when an exception    *)
(* leaves it, and is reported with the signal when it is killed.  Only the *)
(* coordinator run_system_tests.py passes the result of its main() to      *)
(* sys.exit.                                                               *)

\* the entry points that a script's __main__ runs
Processos == {"realizar_varredura", "varredura_inicial", "executar_teste_completo"}

\* exit status of the interpreter once the entry point has ended with status st
CodigoDeSaida(st) ==
    CASE st = "EXCECAO" -> 1
      [] st = "KILLED" -> 0 - 9
      [] OTHER -> 0

\* C13: the exit status of the process reflects the terminal state: it is
\* non-zero when the loop or the test run ended ABORTED or with a fatal
\* failure and zero when it ended SUCCEEDED, for the script itself and for the
\* coordinator that runs the test run as a child.
C13_SaidaRefleteEstado ==
    prog \in Processos =>
        /\ status \in {"ABORTED", "FATAL", "EXCECAO", "KILLED"} =>
              /\ CodigoDeSaida(status) # 0
              /\ CodigoDoCoordenador(run_simulation_tests(CodigoDeSaida(status)), TRUE) # 0
        /\ status = "SUCCEEDED" =>
              /\ CodigoDeSaida(status) = 0
              /\ CodigoDoCoordenador(run_simulation_tests(CodigoDeSaida(status)), TRUE) = 0

----------------------------------------------------------------------------
ComEstatisticas == prog \in {"testar_modulo", "varredura_geral", "executar_teste_completo"}

\* the records of optimizations_applied that corrigir_erro appended
RegistrosDeCorrecao(stats) ==
    Cardinality({ i \in 1..Len(stats.optimizations_applied) :
                    stats.optimizations_applied[i].module # "IA_analysis" })

RECURSIVE SomaFalhas(_, _)
SomaFalhas(tested, nomes) ==
    IF nomes = {} THEN 0
    ELSE LET m == CHOOSE x \in nomes : TRUE
         IN tested[m].failures + SomaFalhas(tested, nomes \ {m})

\* the failures recorded in a SystemTester statistics
FalhasRegistradas(stats) ==
    SomaFalhas(stats.modules_tested, DOMAIN stats.modules_tested)
      + stats.general_tests.failures

----------------------------------------------------------------------------
\* C15 as stated: a sweep for a module name outside MODULOS raises no error and
\* behaves exactly like the general sweep: general failure probability, general
\* list of error kinds, outcomes recorded under general_tests.
C15_ForaDaListaComoGeral ==
    (prog = "testar_modulo" /\ nome_modulo \notin ModuloNomes) =>
        /\ status # "EXCECAO"
        /\ falha_probabilidades(nome_modulo) = falha_probabilidades(None)
        /\ possiveis_erros(nome_modulo) = possiveis_erros(None)
        /\ statistics.general_tests.attempts = hist.iteracoes
        /\ nome_modulo \notin DOMAIN statistics.modules_tested

\* C15 amended: such a sweep raises no error and is a module sweep with the
\* defaults of executar_sistema: the failure probability is the default, equal
\* to the general one; the only error kind is "Unknown error" and the message
\* names the module; the outcomes are recorded in an entry of modules_tested
\* under that name, created by the sweep, and general_tests stays untouched.
C15_ForaDaListaComPadroes ==
    (prog = "testar_modulo" /\ nome_modulo \notin ModuloNomes) =>
        /\ status \in {"RUNNING", "SUCCEEDED"}
        /\ falha_probabilidades(nome_modulo) = falha_probabilidades(None)
        /\ executar_sistema(nome_modulo) =
              { <<TRUE, None, FALSE>>,
                <<FALSE, Mensagem("Unknown error", nome_modulo), FALSE>> }
        /\ statistics.general_tests = EntradaVazia
        /\ DOMAIN statistics.modules_tested \subseteq {nome_modulo}
        /\ Entrada(statistics, nome_modulo).attempts = hist.iteracoes
        /\ DOMAIN Entrada(statistics, nome_modulo).errors
              \subseteq { Mensagem("Unknown error", nome_modulo) }
        /\ status = "SUCCEEDED" =>
              /\ nome_modulo \in DOMAIN statistics.modules_tested
              /\ hist.amostras_ok >= repeticoes

\* the sweep of a name outside MODULOS ended SUCCEEDED after a failure was counted
C15_Witness ==
    /\ prog = "testar_modulo"
    /\ nome_modulo = ModuloForaDaLista
    /\ status = "SUCCEEDED"
    /\ Entrada(statistics, nome_modulo).failures > 0
    /\ Entrada(statistics, nome_modulo).successes > 0

----------------------------------------------------------------------------
\* entry b holds everything entry a holds: no counter is smaller, no error key
\* is missing and no error tally is smaller
EntradaCresce(a, b) ==
    /\ b.attempts >= a.attempts
    /\ b.successes >= a.successes
    /\ b.failures >= a.failures
    /\ \A k \in DOMAIN a.errors : k \in DOMAIN b.errors /\ b.errors[k] >= a.errors[k]

\* sequence s is a prefix of sequence t
Prefixo(s, t) == Len(s) <= Len(t) /\ SubSeq(t, 1, Len(s)) = s

\* C16: within a SystemTester the statistics only grow: every step keeps every
\* key and every module entry, lowers no counter and no error tally, and
\* changes optimizations_applied only by appending at its end.
C16_EstatisticasSoCrescem ==
    [][ /\ DOMAIN statistics \subseteq DOMAIN statistics'
        /\ \A m \in DOMAIN statistics.modules_tested :
              /\ m \in DOMAIN statistics'.modules_tested
              /\ EntradaCresce(statistics.modules_tested[m], statistics'.modules_tested[m])
        /\ EntradaCresce(statistics.general_tests, statistics'.general_tests)
        /\ Prefixo(statistics.optimizations_applied, statistics'.optimizations_applied)
      ]_vars

\* a full test run that ended with a correction record followed by the three
\* records of the analysis, after all the module entries were filled
C16_Witness ==
    /\ prog = "executar_teste_completo"
    /\ status = "SUCCEEDED"
    /\ DOMAIN statistics.modules_tested = ModuloNomes
    /\ Len(statistics.optimizations_applied) = 4
    /\ statistics.optimizations_applied[1].module # "IA_analysis"
    /\ statistics.general_tests.attempts > 0

----------------------------------------------------------------------------
\* C17: an injected fault or a failed correction never reaches the caller as an
\* exception: every result of executar_sistema is the pair (True, None) or the
\* pair (False, message) of an error of the module's list with no exception
\* leaving the call, every sampled failure is counted in the statistics, and
\* whatever the samples and the verdicts of the Corrector were, no sweep and no
\* test run ends with an exception or a fatal error.
C17_FalhaNaoPropaga ==
    ComEstatisticas =>
        /\ \A r \in executar_sistema(nome_modulo) :
              /\ r[1] \in BOOLEAN
              /\ ~r[3]
              /\ r[1] => r[2] = None
              /\ ~r[1] => \E e \in Elems(possiveis_erros(nome_modulo)) :
                              r[2] = Mensagem(e, nome_modulo)
        /\ FalhasRegistradas(statistics) = hist.falhas
        /\ status \in {"RUNNING", "SUCCEEDED"}
        /\ "fatal_error" \notin DOMAIN statistics

\* a module sweep that ended SUCCEEDED after a failure whose correction failed
C17_Witness ==
    /\ prog = "testar_modulo"
    /\ status = "SUCCEEDED"
    /\ repeticoes > 0
    /\ hist.houve_falha_correcao
    /\ Entrada(statistics, nome_modulo).failures > 0

----------------------------------------------------------------------------
\* the records of optimizations_applied that analisar_apis_ia appended
RegistrosDaAnalise(stats) ==
    { i \in 1..Len(stats.optimizations_applied) :
        stats.optimizations_applied[i].module = "IA_analysis" }

\* at step `fase` of a full test run: the sweeps of the steps before it have
\* ended with their target met, the sweeps of the steps after it have not begun
SweepsEmOrdem ==
    /\ fase \in 1..FaseFinal
    /\ nome_modulo = ModuloDaFase(fase)
    /\ \A i \in 1..Len(MODULOS) :
          /\ i < fase => /\ MODULOS[i] \in DOMAIN statistics.modules_tested
                         /\ statistics.modules_tested[MODULOS[i]].successes
                               >= tentativas_modulo
          /\ i > fase => MODULOS[i] \notin DOMAIN statistics.modules_tested
    /\ fase < FaseGeral => statistics.general_tests = EntradaVazia
    /\ fase > FaseGeral => statistics.general_tests.successes >= tentativas_geral
    /\ fase < FaseFinal => RegistrosDaAnalise(statistics) = {}
    /\ fase = FaseFinal =>
          RegistrosDaAnalise(statistics) =
              { i \in 1..Len(statistics.optimizations_applied) :
                  i > Len(statistics.optimizations_applied) - Min(3, Len(otimizacoes)) }
    \* an iteration that failed ends with its correction recorded and the file written
    /\ (status = "RUNNING" /\ hist.ultimo \in {"fixed", "unfixed"} /\ execucoes_sucesso = 0
          /\ fase <= FaseGeral) => arquivo = <<statistics>>
    /\ status = "SUCCEEDED" => fase = FaseFinal

\* a step of a full test run writes only to the sweep of the current step
SoASweepAtual ==
    /\ \A i \in 1..Len(MODULOS) :
          (i # fase /\ MODULOS[i] \in DOMAIN statistics.modules_tested) =>
              /\ MODULOS[i] \in DOMAIN statistics'.modules_tested
              /\ statistics'.modules_tested[MODULOS[i]] = statistics.modules_tested[MODULOS[i]]
    /\ fase # FaseGeral => statistics'.general_tests = statistics.general_tests
    /\ fase' \in {fase, fase + 1}

\* C18: the sweeps of a full test run never overlap: each module's sweep starts
\* after the previous one has ended, the general sweep after all seven, the
\* analysis after the general sweep, and inside a sweep an iteration is complete
\* (sample, correction, statistics, file) before the next one samples.
C18_SweepsNaoSeSobrepoem ==
    /\ [](prog = "executar_teste_completo" => SweepsEmOrdem)
    /\ [][prog = "executar_teste_completo" => SoASweepAtual]_vars

\* a full test run that went through every step and ended, with a failure on the way
C18_Witness ==
    /\ prog = "executar_teste_completo"
    /\ fase = FaseFinal
    /\ status = "SUCCEEDED"
    /\ hist.falhas > 0
    /\ hist.iteracoes > Len(MODULOS) * tentativas_modulo + tentativas_geral

----------------------------------------------------------------------------
\* C19: persisting the statistics and loading them back gives a structurally
\* identical object, whatever the reader's locale: the same module entries, the
\* same counts and error tallies, the same optimization records in the same order.
C19_SalvarECarregar ==
    ComEstatisticas =>
        \A enc \in Codificacoes :
            carregar_estatisticas(save_statistics(statistics), "completa", enc)
              = statistics

----------------------------------------------------------------------------
\* C20: when every sampled run of a sweep failed, no correction succeeded and
\* the sweep ended ABORTED, the statistics persisted at that point, loaded back,
\* show at least threshold + 1 failures and no success.
C20_AbortadaMostraFalhas ==
    (prog \in {"realizar_varredura", "testar_modulo"} /\ TudoFalhou
       /\ status = "ABORTED") =>
        /\ arquivo # <<>>
        /\ escrita = "completa"
        /\ LET c == carregar_estatisticas(arquivo, escrita, "utf-8")
           IN /\ FalhasRegistradas(c) >= Limite + 1
              /\ \A m \in DOMAIN c.modules_tested : c.modules_tested[m].successes = 0
              /\ c.general_tests.successes = 0

----------------------------------------------------------------------------
\* C21: the number of consecutive successes a sweep requires is the configured
\* one: the module sweeps and the general sweep of the test run started by the
\* coordinator use the counts of --module-tests and --system-tests, which reach
\* the child as TEST_MODULE_ITERATIONS and TEST_SYSTEM_ITERATIONS, and the main
\* script's sweep uses the N of --varredura N.
C21_AlvoConfigurado ==
    /\ prog = "executar_teste_completo" =>
          /\ fase \in 1..Len(MODULOS) =>
                repeticoes = Ambiente(coord).TEST_MODULE_ITERATIONS
          /\ fase = FaseGeral =>
                repeticoes = Ambiente(coord).TEST_SYSTEM_ITERATIONS
          /\ status = "SUCCEEDED" =>
                /\ \A m \in ModuloNomes :
                      statistics.modules_tested[m].successes >= coord.module_tests
                /\ statistics.general_tests.successes >= coord.system_tests
    /\ prog = "varredura_inicial" => estatisticas.total = repeticoes

----------------------------------------------------------------------------
\* the steps that sample a run
Amostragens == Iteracoes \/ TesteCompletoIterar

\* C22: the consecutive successes never exceed the target: a sampled success
\* adds exactly one, the loop is SUCCEEDED only with the counter equal to the
\* target, and once the counter equals the target nothing more is sampled.
C22_SucessosAteOAlvo ==
    /\ [](/\ Sucessos <= repeticoes
          /\ status = "SUCCEEDED" => Sucessos = repeticoes
          /\ (Sucessos = repeticoes \/ status # "RUNNING") => ~ENABLED Amostragens)
    /\ [][(hist'.iteracoes = hist.iteracoes + 1 /\ hist'.ultimo = "success")
            => (/\ Sucessos' = Sucessos + 1
                /\ Sucessos < repeticoes)]_vars

\* the main-script sweep ended at its target of more than one success, after a failure
C22_Witness ==
    /\ prog = "varredura_inicial"
    /\ status = "SUCCEEDED"
    /\ repeticoes > 1
    /\ execucoes_sucesso = repeticoes
    /\ estatisticas.falhas > 0

----------------------------------------------------------------------------
\* the error messages executar_sistema can produce for module m (None: general)
MensagensDe(m) == { Mensagem(e, m) : e \in Elems(tipos_erro(m)) }

\* C23: every error recorded in a module's entry is an error of that module's
\* own list (of the default list for a name outside MODULOS), and every error
\* recorded in general_tests is an error of the general list.
C23_ErrosDoProprioModulo ==
    \* the errors of the sweeps: a call of the Corrector alone takes any error
    prog \notin Chamadas =>
        /\ \A m \in DOMAIN statistics.modules_tested :
              DOMAIN statistics.modules_tested[m].errors \subseteq MensagensDe(m)
        /\ DOMAIN statistics.general_tests.errors \subseteq MensagensDe(None)
        /\ \A i \in 1..Len(statistics.optimizations_applied) :
              LET o == statistics.optimizations_applied[i]
              IN o.module # "IA_analysis" => o.error \in MensagensDe(o.module)

\* a module sweep that has recorded two different errors of its list
C23_Witness ==
    /\ prog = "testar_modulo"
    /\ nome_modulo \in ModuloNomes
    /\ Cardinality(DOMAIN Entrada(statistics, nome_modulo).errors) > 1

----------------------------------------------------------------------------
(* The remediation description of a Corrector                              *)

\* the texts the nested table holds for module m under a kind found in erro
Especificas(m, erro) ==
    { acoes(m)[t] : t \in { k \in DOMAIN acoes(m) : Contem(k, erro) } }

\* a call of SystemTester's Corrector that came to its description
ComDescricao ==
    /\ chamada.feito
    /\ \/ prog = "_gerar_acao_correcao"
       \/ prog = "corrigir_erro" /\ chamada.veredito

\* the module a message of the main script names: its part after " em "
ModuloDaMensagem(erro) ==
    IF Len(Partes(erro)) = 2 /\ Len(Partes(erro)[2]) = 1 THEN Partes(erro)[2][1]
    ELSE None

----------------------------------------------------------------------------
(* The probability of the Corrector's draw                                 *)

\* a specific remediation is known for the call's module and error
RemediacaoEspecifica ==
    IF prog = "corrigir_erro_inicial"
      THEN Especificas(ModuloDaMensagem(chamada.erro), chamada.erro) # {}
      ELSE Especificas(chamada.modulo, chamada.erro) # {}

\* a call of a Corrector on an error has returned
Corrigiu ==
    /\ prog \in {"corrigir_erro", "corrigir_erro_inicial"}
    /\ chamada.feito
    /\ chamada.erro # <<>>

\* C25 (as stated): the draw has probability 0.95 exactly when a specific
\* remediation is known for the module and kind, and 0.5 exactly when the
\* generic remediation is used.
C25_ChancePelaRemediacao ==
    Corrigiu => chamada.chance = IF RemediacaoEspecifica THEN 950 ELSE 500

\* C25 (amended): SystemTester.corrigir_erro draws with probability 0.95 for
\* every module and error, whether the remediation will be specific or
\* generic; the main script's corrigir_erro draws with 0.95 exactly when the
\* kind of a message "<kind> em <module>" is in its table, with 0.5 when the
\* kind is not, and does not draw for a message that has not exactly two
\* parts (it returns False).
C25_ChancePorCorretor ==
    Corrigiu =>
        IF prog = "corrigir_erro" THEN chamada.chance = 950
        ELSE IF ~(Len(chamada.erro) = 3 /\ chamada.erro[2] = " em ")
          THEN chamada.chance = 0 /\ ~chamada.veredito
        ELSE chamada.chance = IF chamada.erro[1] \in acoes_correcao THEN 950 ELSE 500

\* SystemTester's Corrector drew for an error that gets the generic text
C25_Witness ==
    /\ prog = "corrigir_erro"
    /\ chamada.feito
    /\ chamada.veredito
    /\ chamada.descricao = AcaoGenerica
    /\ chamada.chance = 950

----------------------------------------------------------------------------
(* The error tally of an entry                                             *)

RECURSIVE SomaErros(_)
SomaErros(errors) ==
    IF DOMAIN errors = {} THEN 0
    ELSE LET k == CHOOSE x \in DOMAIN errors : TRUE
         IN errors[k] + SomaErros([x \in DOMAIN errors \ {k} |-> errors[x]])

\* the entries of a SystemTester statistics: one per module tested, and general_tests
EntradasDe(stats) ==
    { stats.modules_tested[m] : m \in DOMAIN stats.modules_tested }
      \cup {stats.general_tests}

\* the count of key k in a tally, 0 for a key it does not hold
Contagem(errors, k) == IF k \in DOMAIN errors THEN errors[k] ELSE 0

\* from entry a to entry b exactly one error key went up, by exactly one
UmaChaveMaisUm(a, b) ==
    /\ DOMAIN a.errors \subseteq DOMAIN b.errors
    /\ \E k \in DOMAIN b.errors :
          /\ b.errors[k] = Contagem(a.errors, k) + 1
          /\ \A x \in DOMAIN b.errors \ {k} :
                x \in DOMAIN a.errors /\ b.errors[x] = a.errors[x]

\* C26: in SystemTester, after every completed iteration the per-error counts
\* of each module entry and of general_tests add up to its failures, and a
\* step that records a failure raises exactly one error key by exactly one.
C26_ErrosSomamFalhas ==
    /\ [](ComEstatisticas =>
            \A e \in EntradasDe(statistics) : SomaErros(e.errors) = e.failures)
    /\ [][ComEstatisticas =>
            /\ \A m \in DOMAIN statistics'.modules_tested :
                  LET a == Entrada(statistics, m)
                      b == statistics'.modules_tested[m]
                  IN IF b.failures = a.failures THEN b.errors = a.errors
                     ELSE b.failures = a.failures + 1 /\ UmaChaveMaisUm(a, b)
            /\ LET a == statistics.general_tests
                   b == statistics'.general_tests
               IN IF b.failures = a.failures THEN b.errors = a.errors
                  ELSE b.failures = a.failures + 1 /\ UmaChaveMaisUm(a, b)]_vars

\* an entry where one error was counted twice and another once
C26_Witness ==
    /\ ComEstatisticas
    /\ \E e \in EntradasDe(statistics) :
          /\ e.failures = 3
          /\ \E k, x \in DOMAIN e.errors : e.errors[k] = 2 /\ e.errors[x] = 1

----------------------------------------------------------------------------
\* C27: in the main-script sweep, after every completed iteration falhas is
\* correcoes plus falhas_correcao and the counts of tipos_erro add up to
\* falhas; on return the last `repeticoes` runs were all successes and
\* sucesso is at least repeticoes.
C27_ContasDaVarredura ==
    prog = "varredura_inicial" =>
        /\ estatisticas.falhas = estatisticas.correcoes + estatisticas.falhas_correcao
        /\ SomaErros(estatisticas.tipos_erro) = estatisticas.falhas
        /\ estatisticas.falhas = hist.falhas
        /\ estatisticas.correcoes = hist.corrigidas
        /\ estatisticas.sucesso + estatisticas.falhas = hist.iteracoes
        /\ status = "SUCCEEDED" =>
              /\ hist.amostras_ok >= repeticoes
              /\ estatisticas.sucesso >= repeticoes

\* the sweep returned after a corrected and an uncorrected failure
C27_Witness ==
    /\ prog = "varredura_inicial"
    /\ status = "SUCCEEDED"
    /\ repeticoes >= 1
    /\ estatisticas.correcoes = 1
    /\ estatisticas.falhas_correcao = 1
    /\ estatisticas.sucesso = repeticoes

----------------------------------------------------------------------------
(* What a sweep changes                                                    *)

\* a module sweep is running: testar_modulo(nome_modulo)
EmSweepDeModulo ==
    \/ prog \in SweepsDeModulo
    \/ prog = "executar_teste_completo" /\ fase < FaseGeral

\* the general sweep is running
EmSweepGeral ==
    \/ prog = "varredura_geral"
    \/ prog = "executar_teste_completo" /\ fase = FaseGeral

\* C28: testar_modulo(m) changes only the entry of m and the optimization log
\* (by appending): every other module's entry and general_tests stay as they
\* are; varredura_geral changes no module entry; and testar_modulo called for
\* a module that already has an entry adds this call's attempts, successes
\* and failures to the counters it finds.
C28_SoAEntradaDoModulo ==
    /\ [][ /\ EmSweepDeModulo =>
               /\ \A m \in (DOMAIN statistics.modules_tested
                               \cup DOMAIN statistics'.modules_tested) \ {nome_modulo} :
                     /\ m \in DOMAIN statistics.modules_tested
                     /\ m \in DOMAIN statistics'.modules_tested
                     /\ statistics'.modules_tested[m] = statistics.modules_tested[m]
               /\ statistics'.general_tests = statistics.general_tests
               /\ Prefixo(statistics.optimizations_applied,
                          statistics'.optimizations_applied)
           /\ EmSweepGeral => statistics'.modules_tested = statistics.modules_tested
         ]_vars
    /\ [](prog = "testar_modulo_de_novo" =>
             LET a == Entrada(EstatisticasAnteriores, nome_modulo)
                 b == Entrada(statistics, nome_modulo)
             IN /\ b.attempts = a.attempts + hist.iteracoes
                /\ b.failures = a.failures + hist.falhas
                /\ b.successes = a.successes + hist.iteracoes - hist.falhas
                /\ SomaErros(b.errors) = SomaErros(a.errors) + hist.falhas
                /\ \A k \in DOMAIN a.errors :
                      k \in DOMAIN b.errors /\ b.errors[k] >= a.errors[k])

\* the second sweep of a module ended after a failure: its entry holds the
\* counts of both sweeps, the same error counted in each
C28_Witness ==
    /\ prog = "testar_modulo_de_novo"
    /\ nome_modulo = "content_generation"
    /\ status = "SUCCEEDED"
    /\ statistics.modules_tested[nome_modulo].attempts = 4
    /\ statistics.modules_tested[nome_modulo].errors
          [Mensagem("API timeout", "content_generation")] = 2
    /\ statistics.modules_tested["video_generation"].attempts = 1

----------------------------------------------------------------------------
\* the step of analisar_apis_ia
PassoDaAnalise ==
    prog = "executar_teste_completo" /\ fase = FaseAnalise /\ fase' = FaseFinal

\* C29: analisar_apis_ia appends exactly three records to
\* optimizations_applied, each with module "IA_analysis" and an action of the
\* five-entry list, the three actions pairwise distinct; the earlier records
\* and all the counters stay as they are, and the statistics are saved
\* afterwards.
C29_TresRegistrosDaAnalise ==
    [][PassoDaAnalise =>
         LET antes == statistics.optimizations_applied
             depois == statistics'.optimizations_applied
             novos == SubSeq(depois, Len(antes) + 1, Len(depois))
         IN /\ Len(otimizacoes) = 5
            /\ Len(depois) = Len(antes) + 3
            /\ Prefixo(antes, depois)
            /\ \A i \in 1..Len(novos) :
                  /\ novos[i].module = "IA_analysis"
                  /\ \E j \in 1..Len(otimizacoes) : novos[i].action = <<otimizacoes[j]>>
            /\ \A i, j \in 1..Len(novos) : i # j => novos[i].action # novos[j].action
            /\ statistics'.modules_tested = statistics.modules_tested
            /\ statistics'.general_tests = statistics.general_tests
            /\ arquivo' = <<statistics'>>
            /\ escrita' = "completa"
      ]_vars

\* the analysis appended the fifth, the first and the third optimization, in
\* that order, after a correction record of a sweep
C29_Witness ==
    /\ prog = "executar_teste_completo"
    /\ fase = FaseFinal
    /\ Len(statistics.optimizations_applied) = 4
    /\ statistics.optimizations_applied[1].module # "IA_analysis"
    /\ statistics.optimizations_applied[2].action = <<otimizacoes[5]>>
    /\ statistics.optimizations_applied[3].action = <<otimizacoes[1]>>
    /\ statistics.optimizations_applied[4].action = <<otimizacoes[3]>>
    /\ arquivo = <<statistics>>

----------------------------------------------------------------------------
(* The coordinator's phases                                                *)

\* the phases a mode selects, in the order main runs them
FasesDoModo(mode) ==
    CASE mode = "simulation" -> <<"simulation">>
      [] mode = "integration" -> <<"integration">>
      [] OTHER -> <<"simulation", "integration">>

\* C30: main returns 0 if and only if every phase the mode selects returned
\* success; simulation runs before integration; mode 'simulation' never
\* starts the integration child and mode 'integration' never the simulation
\* child; analyze_results runs exactly once, after the selected phases,
\* whether they succeeded or not.
C30_FasesEAnalise ==
    prog = "run_system_tests.main" =>
        /\ Prefixo(coord.iniciados, FasesDoModo(coord.mode))
        /\ Len(coord.resultados) =
              Len(coord.iniciados) - (IF coord.pc \in Esperas THEN 1 ELSE 0)
        /\ \A i \in 1..Len(coord.resultados) :
              coord.resultados[i].fase = coord.iniciados[i]
        /\ coord.mode = "simulation" => \A i \in 1..Len(coord.iniciados) :
                                           coord.iniciados[i] # "integration"
        /\ coord.mode = "integration" => \A i \in 1..Len(coord.iniciados) :
                                            coord.iniciados[i] # "simulation"
        /\ coord.analises = IF coord.pc \in {"return", "done"} THEN 1 ELSE 0
        /\ coord.pc \in {"analysis", "return", "done"} =>
              coord.iniciados = FasesDoModo(coord.mode)
        /\ IF coord.pc = "done"
             THEN /\ coord.retorno \in {0, 1}
                  /\ coord.retorno = 0 <=>
                        \A i \in 1..Len(coord.resultados) : coord.resultados[i].ok
             ELSE coord.retorno = 0 - 1

\* a full run returned 1: the simulation failed, the integration succeeded
\* and the analysis ran
C30_Witness ==
    /\ prog = "run_system_tests.main"
    /\ coord.mode = "full"
    /\ coord.pc = "done"
    /\ coord.resultados = << [fase |-> "simulation", ok |-> FALSE],
                             [fase |-> "integration", ok |-> TRUE] >>
    /\ coord.analises = 1
    /\ coord.retorno = 1

----------------------------------------------------------------------------
(* The coordinator and the pipes of its child                              *)

\* a phase has started its child and not returned
FaseEmCurso == prog = "run_system_tests.main" /\ coord.pc \in Esperas

\* C31 (as stated): run_simulation_tests and run_integration_tests never
\* deadlock with their child: whatever the child writes to stdout and to
\* stderr, the child eventually exits and the phase eventually returns.
C31_FaseSempreRetorna ==
    FaseEmCurso ~> ~FaseEmCurso

----------------------------------------------------------------------------
\* C32: run once, the main script calls rodar_sistema at most twice, the
\* second time only if the first run failed and corrigir_erro returned True;
\* it calls corrigir_erro at most once; and the status it logs at the end is
\* success if and only if the last call of rodar_sistema succeeded.
C32_ExecucaoUnica ==
    prog = "execucao_unica" =>
        /\ Len(unica.execucoes) <= 2
        /\ Len(unica.vereditos) <= 1
        /\ Len(unica.execucoes) = 2 =>
              ~unica.execucoes[1] /\ unica.vereditos = <<TRUE>>
        /\ unica.vereditos # <<>> => ~unica.execucoes[1]
        /\ unica.pc = "done" =>
              /\ Len(unica.execucoes) >= 1
              /\ unica.final = "sucesso" <=> unica.execucoes[Len(unica.execucoes)]
              /\ unica.final = "erro" <=> ~unica.execucoes[Len(unica.execucoes)]

\* the first run failed, the correction succeeded, the second run failed
\* too: the script ended logging the error
C32_Witness ==
    /\ prog = "execucao_unica"
    /\ unica.pc = "done"
    /\ unica.execucoes = <<FALSE, FALSE>>
    /\ unica.vereditos = <<TRUE>>
    /\ unica.final = "erro"

----------------------------------------------------------------------------
(* The errors of the fault model and their remediations                    *)

\* the programs that are sweeps of a SystemTester
ComEstatisticasDeSweeps ==
    {"testar_modulo", "testar_modulo_de_novo", "varredura_geral", "executar_teste_completo"}

\* the main script's corrigir_erro finds the kind of this message in its
\* table: it takes neither the unknown-format nor the unknown-error branch
ComRemediacaoInicial(erro) ==
    /\ Len(Partes(erro)) = 2
    /\ TipoConhecido(erro)
    /\ chance_inicial(erro) = 950
    /\ acao_inicial(erro) # ""

\* the remediation text of a correction record: the last part of its action
TextoDaAcao(o) == o.action[Len(o.action)]

\* C33: every error the fault model emits has a registered remediation.  In
\* the main script every message of rodar_sistema splits into (kind, module)
\* with the kind in the correction table; in SystemTester every error of one
\* of the seven modules resolves to that module's specific text, and the
\* generic text results only for the general sweep or an unlisted module.
C33_TodoErroTemRemediacao ==
    /\ prog = "varredura_inicial" =>
          \A k \in DOMAIN estatisticas.tipos_erro : ComRemediacaoInicial(k)
    /\ (prog = "execucao_unica" /\ unica.erro # <<>>) =>
          ComRemediacaoInicial(unica.erro)
    /\ (prog \in ComEstatisticasDeSweeps) =>
          /\ \A m \in DOMAIN statistics.modules_tested \cap ModuloNomes :
                \A k \in DOMAIN statistics.modules_tested[m].errors :
                   /\ Especificas(m, k) # {}
                   /\ _gerar_acao_correcao(m, k) \in Especificas(m, k)
                   /\ _gerar_acao_correcao(m, k) # AcaoGenerica
          /\ \A i \in 1..Len(statistics.optimizations_applied) :
                LET o == statistics.optimizations_applied[i]
                IN o.module # "IA_analysis" =>
                     IF o.module \in ModuloNomes
                       THEN /\ TextoDaAcao(o) \in Especificas(o.module, o.error)
                            /\ TextoDaAcao(o) # AcaoGenerica
                       ELSE TextoDaAcao(o) = AcaoGenerica

\* a general sweep with a generic correction record after a failure
C33_Witness ==
    /\ prog = "varredura_geral"
    /\ Len(statistics.optimizations_applied) = 1
    /\ TextoDaAcao(statistics.optimizations_applied[1]) = AcaoGenerica
    /\ statistics.general_tests.failures = 1

----------------------------------------------------------------------------
\* C34 (as stated): criar_backup(n) followed by restaurar_backup(n) returns
\* True and leaves every listed directory and file that existed at backup
\* time with the content it had then; restaurar_backup of a name without a
\* backup returns False and changes nothing in the working tree.
C34_RestauraOBackup ==
    (prog = "backup_e_restauracao" /\ arvore.pc = "done") =>
        IF arvore.nome = "b"
          THEN /\ arvore.retorno = "True"
               /\ \A d \in Elems(diretorios) :
                     arvore.no_backup.dirs[d] # <<>> =>
                        arvore.trabalho.dirs[d] = arvore.no_backup.dirs[d]
               /\ \A f \in Elems(arquivos) :
                     arvore.no_backup.arqs[f] # <<>> =>
                        arvore.trabalho.arqs[f] = arvore.no_backup.arqs[f]
          ELSE /\ arvore.retorno = "False"
               /\ arvore.trabalho = arvore.antes

====
